---- MODULE Spec2Model ----
(***************************************************************************)
(* The Transfer database layer of the openVA pipeline                      *)
(* (openva_pipeline/transferDB.py): connectDB and the configuration        *)
(* loaders configPipeline, configODK, configOpenVA (with its three family  *)
(* validators) and configDHIS, as a state machine over the content of the  *)
(* encrypted store.                                                        *)
(*                                                                         *)
(* A value read from the store is a Python value: a str or None.  A row is *)
(* the tuple the SELECT returns (columns in SELECT order, Python index i   *)
(* is TLA+ index i+1).  The outcome of a call is a record telling whether  *)
(* it returned or raised, which exception class, and with which message.   *)
(***************************************************************************)
EXTENDS Integers, Sequences, FiniteSets, TLC

VARIABLES
    store,          \* table name -> [ok, rows]: what each SELECT yields
    dbFilePresent,  \* os.path.isfile(self.dbPath)
    dbKey,          \* self.dbKey
    opened,         \* handles sqlcipher.connect() opened and nobody closed
    held,           \* the caller holds the connection connectDB returned
    padYear,        \* the C library's strftime pads %Y to four digits
    vaStorage,      \* submission identifiers of the VA records the store holds
    result,         \* outcome of the last call
    runs            \* history: what each run of the pipeline so far was seen to do

vars == <<store, dbFilePresent, dbKey, opened, held, padYear, vaStorage, result, runs>>

-----------------------------------------------------------------------------
(* Python values *)

Str(s) == [t |-> "str", v |-> s]

None == [t |-> "NoneType", v |-> ""]

IsStr(x) == x.t = "str"

(* s[a:b] of a str, 0 <= a <= b: the slice is clamped to the string. *)
Slice(s, a, b) ==
    LET hi == IF b < Len(s) THEN b ELSE Len(s)
    IN  IF a >= hi THEN "" ELSE SubSeq(s, a + 1, hi)

CharAt(s, i) == SubSeq(s, i, i)

Digits == {"0", "1", "2", "3", "4", "5", "6", "7", "8", "9"}

DigitVal(c) ==
    CASE c = "0" -> 0 [] c = "1" -> 1 [] c = "2" -> 2 [] c = "3" -> 3
      [] c = "4" -> 4 [] c = "5" -> 5 [] c = "6" -> 6 [] c = "7" -> 7
      [] c = "8" -> 8 [] c = "9" -> 9

AllDigits(s) == Len(s) > 0 /\ \A i \in 1..Len(s) : CharAt(s, i) \in Digits

RECURSIVE ToInt(_)
ToInt(s) ==
    IF Len(s) = 0 THEN 0
    ELSE 10 * ToInt(SubSeq(s, 1, Len(s) - 1)) + DigitVal(CharAt(s, Len(s)))

-----------------------------------------------------------------------------
(* float(x), transferDB.py lines 493, 533, 546, 564, 577, 595, 608, 621,   *)
(* 655, 668 and 712.  None raises TypeError; a str is stripped of          *)
(* surrounding blanks, then an optional sign, then "inf", "infinity" or    *)
(* "nan" in any case, or a decimal numeral digits[.digits] or .digits.     *)
(* The numeral is kept as its digit strings, so the comparisons with 0 and *)
(* 1 below are exact.  The grammar here has no exponent part and no digit  *)
(* grouping: the values the model stores stay inside it.                   *)

RECURSIVE LStrip(_)
LStrip(s) ==
    IF Len(s) > 0 /\ CharAt(s, 1) = " " THEN LStrip(SubSeq(s, 2, Len(s))) ELSE s

RECURSIVE RStrip(_)
RStrip(s) ==
    IF Len(s) > 0 /\ CharAt(s, Len(s)) = " "
    THEN RStrip(SubSeq(s, 1, Len(s) - 1)) ELSE s

Lower(c) ==
    CASE c = "I" -> "i" [] c = "N" -> "n" [] c = "F" -> "f" [] c = "T" -> "t"
      [] c = "Y" -> "y" [] c = "A" -> "a" [] OTHER -> c

RECURSIVE LowerStr(_)
LowerStr(s) ==
    IF Len(s) = 0 THEN "" ELSE Lower(CharAt(s, 1)) \o LowerStr(SubSeq(s, 2, Len(s)))

AllZeros(s) == \A i \in 1..Len(s) : CharAt(s, i) = "0"

OnlyDigits(s) == \A i \in 1..Len(s) : CharAt(s, i) \in Digits

RECURSIVE DropZeros(_)
DropZeros(s) ==
    IF Len(s) > 0 /\ CharAt(s, 1) = "0" THEN DropZeros(SubSeq(s, 2, Len(s))) ELSE s

FloatError(e) ==
    [ok |-> FALSE, exc |-> e, kind |-> "", neg |-> FALSE, ip |-> "", fp |-> ""]

FloatValue(k, n, i, f) ==
    [ok |-> TRUE, exc |-> "", kind |-> k, neg |-> n, ip |-> i, fp |-> f]

(* The position of the decimal point in body, 0 when there is none. *)
PointAt(body) ==
    IF \E i \in 1..Len(body) : CharAt(body, i) = "."
    THEN CHOOSE i \in 1..Len(body) :
            CharAt(body, i) = "." /\ \A j \in 1..(i - 1) : CharAt(body, j) # "."
    ELSE 0

float(x) ==
    IF ~IsStr(x) THEN FloatError("TypeError")
    ELSE
    LET s    == RStrip(LStrip(x.v))
        sgn  == IF Len(s) > 0 /\ CharAt(s, 1) \in {"+", "-"} THEN CharAt(s, 1) ELSE ""
        neg  == sgn = "-"
        body == SubSeq(s, Len(sgn) + 1, Len(s))
        p    == PointAt(body)
        ip   == IF p = 0 THEN body ELSE SubSeq(body, 1, p - 1)
        fp   == IF p = 0 THEN "" ELSE SubSeq(body, p + 1, Len(body))
    IN  IF LowerStr(body) \in {"inf", "infinity"} THEN FloatValue("inf", neg, "", "")
        ELSE IF LowerStr(body) = "nan" THEN FloatValue("nan", neg, "", "")
        ELSE IF /\ OnlyDigits(ip) /\ OnlyDigits(fp)
                /\ Len(ip) + Len(fp) > 0
             THEN FloatValue("finite", neg, DropZeros(ip), fp)
        ELSE FloatError("ValueError")

(* The comparisons the validators make on a parsed float.  nan compares    *)
(* false with everything; -0.0 equals 0.                                   *)
IsZero(f) == f.kind = "finite" /\ f.ip = "" /\ AllZeros(f.fp)

ZeroLt(f) == f.kind # "nan" /\ ~f.neg /\ ~IsZero(f)

ZeroLe(f) == f.kind # "nan" /\ (~f.neg \/ IsZero(f))

LeOne(f) ==
    /\ f.kind # "nan"
    /\ \/ f.neg
       \/ f.kind = "finite" /\ (f.ip = "" \/ (f.ip = "1" /\ AllZeros(f.fp)))

LtOne(f) == f.kind # "nan" /\ (f.neg \/ (f.kind = "finite" /\ f.ip = ""))

-----------------------------------------------------------------------------
(* datetime.datetime.strptime / strftime and the subtraction of            *)
(* datetime.timedelta(days=1), as configODK uses them (lines 222-227).     *)
(* The directives match as in the library: %Y is exactly four digits, %m,  *)
(* %d, %H, %M and %S are one or two digits within their ranges, the        *)
(* separators are literal and the whole string must be consumed.           *)

IsLeap(y) == y % 4 = 0 /\ (y % 100 # 0 \/ y % 400 = 0)

DaysInMonth(y, m) ==
    IF m = 2 THEN (IF IsLeap(y) THEN 29 ELSE 28)
    ELSE IF m \in {4, 6, 9, 11} THEN 30 ELSE 31

RECURSIVE DaysBeforeMonth(_, _)
DaysBeforeMonth(y, m) ==
    IF m = 1 THEN 0 ELSE DaysBeforeMonth(y, m - 1) + DaysInMonth(y, m - 1)

DaysBeforeYear(year) ==
    LET y == year - 1 IN y * 365 + (y \div 4) - (y \div 100) + (y \div 400)

Ymd2Ord(y, m, d) == DaysBeforeYear(y) + DaysBeforeMonth(y, m) + d

MaxOrdinal == Ymd2Ord(9999, 12, 31)

Ord2Ymd(ord) ==
    LET n0    == ord - 1
        di400 == DaysBeforeYear(401)
        di100 == DaysBeforeYear(101)
        di4   == DaysBeforeYear(5)
        n400  == n0 \div di400
        r400  == n0 % di400
        n100  == r400 \div di100
        r100  == r400 % di100
        n4    == r100 \div di4
        r4    == r100 % di4
        n1    == r4 \div 365
        n     == r4 % 365
        year  == n400 * 400 + 1 + n100 * 100 + n4 * 4 + n1
    IN  IF n1 = 4 \/ n100 = 4 THEN <<year - 1, 12, 31>>
        ELSE
        LET m0 == (n + 50) \div 32
            p0 == DaysBeforeMonth(year, m0)
            month == IF p0 > n THEN m0 - 1 ELSE m0
            prec  == DaysBeforeMonth(year, month)
        IN  <<year, month, n - prec + 1>>

TimeError(e) == [ok |-> FALSE, exc |-> e, y |-> 0, m |-> 0, d |-> 0]

TimeValue(y, m, d) == [ok |-> TRUE, exc |-> "", y |-> y, m |-> m, d |-> d]

(* One or two characters matching a directive whose values are lo..hi; a   *)
(* day may also be a blank followed by a digit from 1 to 9.                *)
MatchesField(piece, lo, hi, blankPad) ==
    \/ AllDigits(piece) /\ ToInt(piece) >= lo /\ ToInt(piece) <= hi
    \/ /\ blankPad
       /\ Len(piece) = 2
       /\ CharAt(piece, 1) = " "
       /\ CharAt(piece, 2) \in (Digits \ {"0"})

FieldVal(piece) == IF CharAt(piece, 1) = " " THEN ToInt(SubSeq(piece, 2, 2)) ELSE ToInt(piece)

(* The date a matched year, month and day make, or the constructor's       *)
(* ValueError (year 0, day past the end of the month, second 60 or 61).    *)
MakeDate(y, m, d, sec) ==
    IF y < 1 \/ d > DaysInMonth(y, m) \/ sec > 59
    THEN TimeError("ValueError") ELSE TimeValue(y, m, d)

(* strptime(x, "%Y-%m-%d_%H:%M:%S") *)
StrptimeStamp(x) ==
    IF ~IsStr(x) THEN TimeError("TypeError")
    ELSE
    LET s == x.v
        Fits(L) ==
            /\ Len(s) = 9 + L[1] + L[2] + L[3] + L[4] + L[5]
            /\ AllDigits(SubSeq(s, 1, 4))
            /\ CharAt(s, 5) = "-"
            /\ MatchesField(SubSeq(s, 6, 5 + L[1]), 1, 12, FALSE)
            /\ CharAt(s, 6 + L[1]) = "-"
            /\ MatchesField(SubSeq(s, 7 + L[1], 6 + L[1] + L[2]), 1, 31, TRUE)
            /\ CharAt(s, 7 + L[1] + L[2]) = "_"
            /\ MatchesField(SubSeq(s, 8 + L[1] + L[2], 7 + L[1] + L[2] + L[3]),
                            0, 23, FALSE)
            /\ CharAt(s, 8 + L[1] + L[2] + L[3]) = ":"
            /\ MatchesField(SubSeq(s, 9 + L[1] + L[2] + L[3],
                                   8 + L[1] + L[2] + L[3] + L[4]), 0, 59, FALSE)
            /\ CharAt(s, 9 + L[1] + L[2] + L[3] + L[4]) = ":"
            /\ MatchesField(SubSeq(s, 10 + L[1] + L[2] + L[3] + L[4], Len(s)),
                            0, 61, FALSE)
        fits == {L \in [1..5 -> {1, 2}] : Fits(L)}
    IN  IF fits = {} THEN TimeError("ValueError")
        ELSE LET L == CHOOSE l \in fits : TRUE
             IN  MakeDate(ToInt(SubSeq(s, 1, 4)),
                          FieldVal(SubSeq(s, 6, 5 + L[1])),
                          FieldVal(SubSeq(s, 7 + L[1], 6 + L[1] + L[2])),
                          ToInt(SubSeq(s, 10 + L[1] + L[2] + L[3] + L[4], Len(s))))

(* strptime(x, "%Y/%m/%d") *)
StrptimeDate(x) ==
    IF ~IsStr(x) THEN TimeError("TypeError")
    ELSE
    LET s == x.v
        Fits(L) ==
            /\ Len(s) = 6 + L[1] + L[2]
            /\ AllDigits(SubSeq(s, 1, 4))
            /\ CharAt(s, 5) = "/"
            /\ MatchesField(SubSeq(s, 6, 5 + L[1]), 1, 12, FALSE)
            /\ CharAt(s, 6 + L[1]) = "/"
            /\ MatchesField(SubSeq(s, 7 + L[1], Len(s)), 1, 31, TRUE)
        fits == {L \in [1..2 -> {1, 2}] : Fits(L)}
    IN  IF fits = {} THEN TimeError("ValueError")
        ELSE LET L == CHOOSE l \in fits : TRUE
             IN  MakeDate(ToInt(SubSeq(s, 1, 4)),
                          FieldVal(SubSeq(s, 6, 5 + L[1])),
                          FieldVal(SubSeq(s, 7 + L[1], Len(s))), 0)

DigitChar(n) ==
    CASE n = 0 -> "0" [] n = 1 -> "1" [] n = 2 -> "2" [] n = 3 -> "3"
      [] n = 4 -> "4" [] n = 5 -> "5" [] n = 6 -> "6" [] n = 7 -> "7"
      [] n = 8 -> "8" [] n = 9 -> "9"

RECURSIVE IntStr(_)
IntStr(n) == IF n < 10 THEN DigitChar(n) ELSE IntStr(n \div 10) \o DigitChar(n % 10)

RECURSIVE ZeroPad(_, _)
ZeroPad(s, w) == IF Len(s) >= w THEN s ELSE ZeroPad("0" \o s, w)

(* strftime("%Y/%m/%d"): %m and %d are two digits; %Y is the year in       *)
(* decimal, which the C library pads to four digits or not (pad).          *)
Strftime(t, pad) ==
    Str((IF pad THEN ZeroPad(IntStr(t.y), 4) ELSE IntStr(t.y))
        \o "/" \o ZeroPad(IntStr(t.m), 2) \o "/" \o ZeroPad(IntStr(t.d), 2))

(* t - datetime.timedelta(days=1): through the proleptic ordinal, with     *)
(* OverflowError when the result leaves 1..MaxOrdinal.                     *)
MinusOneDay(t) ==
    LET days == Ymd2Ord(t.y, t.m, t.d) - 1
    IN  IF 0 < days /\ days <= MaxOrdinal
        THEN LET ymd == Ord2Ymd(days) IN TimeValue(ymd[1], ymd[2], ymd[3])
        ELSE TimeError("OverflowError")

-----------------------------------------------------------------------------
(* Outcomes, the file system and the queries *)

Raise(exc, msg) == [kind |-> "raise", exc |-> exc, msg |-> msg, value |-> <<>>]

Return(v) == [kind |-> "return", exc |-> "", msg |-> "", value |-> v]

(* The directories that exist on the machine. *)
ExistingDirs == {"/wd", "/wd/InterVA", "/wd/InSilicoVA"}

RECURSIVE StripSlashes(_)
StripSlashes(p) ==
    IF Len(p) > 1 /\ CharAt(p, Len(p)) = "/"
    THEN StripSlashes(SubSeq(p, 1, Len(p) - 1)) ELSE p

(* os.path.isdir of a str: trailing slashes do not matter. *)
isdir(p) == StripSlashes(p) \in ExistingDirs

(* os.path.join(a, b) of two str (posixpath). *)
join(a, b) ==
    IF Len(b) > 0 /\ CharAt(b, 1) = "/" THEN b
    ELSE IF a = "" \/ CharAt(a, Len(a)) = "/" THEN a \o b
    ELSE a \o "/" \o b

(* A query whose OperationalError no except clause turns into a pipeline  *)
(* error.                                                                  *)
QueryErrorUncaught(st, table) == FALSE

(* c.execute(sql).fetchall(): the rows, or sqlcipher.OperationalError when *)
(* the table is missing or garbled.                                        *)
QueryFails(st, table) == ~st[table].ok

(* fetchall(), were the query to order the rows newest first. *)
RowsNewestFirst(st, table) ==
    LET rows == st[table].rows
    IN  [i \in 1..Len(rows) |-> rows[Len(rows) + 1 - i]]

Rows(st, table) == st[table].rows

(* [j for i in query for j in i] *)
RECURSIVE Flatten(_)
Flatten(rows) ==
    IF Len(rows) = 0 THEN {}
    ELSE {rows[1][k] : k \in 1..Len(rows[1])} \cup Flatten(Tail(rows))

(* url[0:7] == "http://" or url[0:8] == "https://" *)
StartsWithHttp(url) ==
    Slice(url, 0, 7) = "http://" \/ Slice(url, 0, 8) = "https://"

-----------------------------------------------------------------------------
(* TransferDB.configPipeline *)

PipelineAlgorithms == {Str("InterVA"), Str("Insilico"), Str("SmartVA"), Str("InterVA5")}

PipelineCodSources == {Str("ICD10"), Str("WHO"), Str("Tariff")}

configPipeline(st) ==
    IF QueryFails(st, "Algorithm_Metadata_Options")
    THEN Raise("PipelineConfigurationError",
               "Problem in database table Algorithm_Metadata_Options, ")
    ELSE IF QueryFails(st, "Pipeline_Conf")
    THEN Raise("PipelineConfigurationError",
               "Problem in database table Pipeline_Conf, ")
    ELSE IF Len(Rows(st, "Pipeline_Conf")) = 0 THEN Raise("IndexError", "")
    ELSE
    LET row == Rows(st, "Pipeline_Conf")[1]
    IN  IF row[1] \notin Flatten(Rows(st, "Algorithm_Metadata_Options"))
        THEN Raise("PipelineConfigurationError",
                   "Problem in database: Pipeline_Conf.algorithmMetadataCode")
        ELSE IF row[2] \notin PipelineCodSources
        THEN Raise("PipelineConfigurationError",
                   "Problem in database: Pipeline_Conf.codSource")
        ELSE IF row[3] \notin PipelineAlgorithms
        THEN Raise("PipelineConfigurationError",
                   "Problem in database: Pipeline_Conf.algorithm")
        ELSE IF ~IsStr(row[4]) THEN Raise("TypeError", "")
        ELSE IF ~isdir(row[4].v)
        THEN Raise("PipelineConfigurationError",
                   "Problem in database: Pipeline_Conf.workingDirectory")
        ELSE Return(<<row[1], row[2], row[3], row[4]>>)

-----------------------------------------------------------------------------
(* TransferDB.configODK *)

configODK(st, pad) ==
    IF QueryFails(st, "ODK_Conf")
    THEN Raise("PipelineConfigurationError", "Problem in database table ODK_Conf, ")
    ELSE IF Len(Rows(st, "ODK_Conf")) = 0 THEN Raise("IndexError", "")
    ELSE
    LET row == Rows(st, "ODK_Conf")[1]
        odkURL == row[2]
        odkLastRun == row[6]
        odkLastRunResult == row[7]
        parsed == StrptimeStamp(odkLastRun)
        odkLastRunDate == Strftime(parsed, pad)
        reparsed == StrptimeDate(odkLastRunDate)
        prev == MinusOneDay(reparsed)
        odkLastRunDatePrev == Strftime(prev, pad)
    IN  IF ~IsStr(odkURL) THEN Raise("TypeError", "")
        ELSE IF ~StartsWithHttp(odkURL.v)
        THEN Raise("ODKConfigurationError", "Problem in database: ODK_Conf.odkURL")
        ELSE IF odkLastRunResult \notin {Str("success"), Str("fail")}
        THEN Raise("ODKConfigurationError",
                   "Problem in database: ODK_Conf.odkLastRunResult")
        ELSE IF ~parsed.ok THEN Raise(parsed.exc, "")
        ELSE IF ~reparsed.ok THEN Raise(reparsed.exc, "")
        ELSE IF ~prev.ok THEN Raise(prev.exc, "")
        ELSE Return(<<row[1], odkURL, row[3], row[4], row[5], odkLastRun,
                      odkLastRunResult, odkLastRunDate, odkLastRunDatePrev>>)

-----------------------------------------------------------------------------
(* TransferDB.configDHIS *)

IsEmpty(x) == x = Str("") \/ x = None

configDHIS(st) ==
    IF QueryFails(st, "DHIS_Conf")
    THEN Raise("PipelineConfigurationError", "Problem in database table DHIS_Conf, ")
    ELSE IF Len(Rows(st, "DHIS_Conf")) = 0 THEN Raise("IndexError", "")
    ELSE
    LET row == Rows(st, "DHIS_Conf")[1]
    IN  IF ~IsStr(row[1]) THEN Raise("TypeError", "")
        ELSE IF ~StartsWithHttp(row[1].v)
        THEN Raise("DHISConfigurationError", "Problem in database: DHIS_Conf.dhisURL")
        ELSE IF IsEmpty(row[2])
        THEN Raise("DHISConfigurationError",
                   "Problem in database: DHIS_Conf.dhisUser (is empty)")
        ELSE IF IsEmpty(row[3])
        THEN Raise("DHISConfigurationError",
                   "Problem in database: DHIS_Conf.dhisPassword (is empty)")
        ELSE IF IsEmpty(row[4])
        THEN Raise("DHISConfigurationError",
                   "Problem in database: DHIS_Conf.dhisOrgUnit (is empty)")
        ELSE Return(<<row[1], row[2], row[3], row[4]>>)

-----------------------------------------------------------------------------
(* The family validators' field rules *)

OpenVAError(msg) == Raise("OpenVAConfigurationError", "Problem in database: " \o msg)

(* The first check of a list that fails decides the outcome. *)
FirstFailure(checks, ret) ==
    IF \E i \in 1..Len(checks) : checks[i][1]
    THEN LET i == CHOOSE k \in 1..Len(checks) :
                    checks[k][1] /\ \A j \in 1..(k - 1) : ~checks[j][1]
         IN  checks[i][2]
    ELSE ret

(* x in ("TRUE", "FALSE") *)
InTrueFalse(x) == x \in {Str("TRUE"), Str("FALSE")}

(* The SmartVA flags, were they spelt as the flags of the other two        *)
(* validators are.                                                         *)
InSmartVAUpperCase(x) == x \in {Str("TRUE"), Str("FALSE")}

(* x in ("True", "False") *)
InSmartVATrueFalse(x) == x \in {Str("True"), Str("False")}

(* x in ("", None) *)
IsBlank(x) == x \in {Str(""), None}

(* The unit interval without its end points. *)
InOpenUnitInterval(x) == LET f == float(x) IN f.ok /\ ZeroLt(f) /\ LtOne(f)

(* try: f = float(x); valid = (0 <= f <= 1)  except: raise *)
InUnitInterval(x) == LET f == float(x) IN f.ok /\ ZeroLe(f) /\ LeOne(f)

(* if not x == "NULL": the unit-interval check *)
ValidCondProbNum(x) == x = Str("NULL") \/ InUnitInterval(x)

(* A number that may also be 0. *)
IsNonNegative(x) == LET f == float(x) IN f.ok /\ ZeroLe(f)

(* try: f = float(x); valid = (0 < f)  except: raise *)
IsPositive(x) == LET f == float(x) IN f.ok /\ ZeroLt(f)

(* indiv_CI, were its check the one of the other probabilities. *)
IndivCIInUnitInterval(x) == x = Str("NULL") \/ InUnitInterval(x)

(* if not x == "NULL": try: f = float(x); valid = (0 < f < 1) *)
ValidIndivCI(x) ==
    x = Str("NULL") \/ (LET f == float(x) IN f.ok /\ ZeroLt(f) /\ LtOne(f))

(* try: float(x)  except: raise *)
IsNumber(x) == float(x).ok

(* The checks of java_option without the one of its last character. *)
JavaOptionChecksAnyUnit(x) ==
    LET jo           == x.v
        joLength     == Len(jo)
        joFirst4Char == Slice(jo, 0, 4)
        joMemSize    == Slice(jo, 4, joLength - 1)
    IN  << <<~IsStr(x), Raise("TypeError", "")>>,
           <<x = Str("") \/ joLength < 6,
             OpenVAError("InSilicoVA_Conf.java_option (should look like '-Xmx1g').")>>,
           <<joFirst4Char # "-Xmx",
             OpenVAError("InSilicoVA_Conf.java_option (should start with '-Xmx').")>>,
           <<~IsPositive(Str(joMemSize)),
             OpenVAError("InSilicoVA_Conf.java_option (should look like '-Xmx1g').")>> >>

(* The checks of Advanced_InSilicoVA_Conf.java_option, lines 637-665. *)
JavaOptionChecks(x) ==
    LET jo           == x.v
        joLength     == Len(jo)
        joLastChar   == IF joLength = 0 THEN "" ELSE CharAt(jo, joLength)
        joFirst4Char == Slice(jo, 0, 4)
        joMemSize    == Slice(jo, 4, joLength - 1)
    IN  << <<~IsStr(x), Raise("TypeError", "")>>,
           <<x = Str("") \/ joLength < 6,
             OpenVAError("InSilicoVA_Conf.java_option (should look like '-Xmx1g').")>>,
           <<joFirst4Char # "-Xmx",
             OpenVAError("InSilicoVA_Conf.java_option (should start with '-Xmx').")>>,
           <<joLastChar \notin {"m", "g"},
             OpenVAError("InSilicoVA_Conf.java_option (should end with 'g' for gigabyts or 'm' for megabytes).")>>,
           <<~IsPositive(Str(joMemSize)),
             OpenVAError("InSilicoVA_Conf.java_option (should look like '-Xmx1g').")>> >>

(* os.path.isdir(os.path.join(pipelineDir, directory)): TypeError when     *)
(* either is None.                                                         *)
JoinedIsDir(pipelineDir, directory) == isdir(join(pipelineDir.v, directory.v))

-----------------------------------------------------------------------------
(* TransferDB.__configInterVA__ *)

configInterVA(st, pipelineDir) ==
    IF QueryFails(st, "InterVA_Conf")
    THEN Raise("PipelineConfigurationError",
               "Problem in database table InterVA_Conf, ")
    ELSE IF Len(Rows(st, "InterVA_Conf")) = 0 THEN Raise("IndexError", "")
    ELSE
    LET q == Rows(st, "InterVA_Conf")[1]
        base == << <<q[1] \notin {Str("4"), Str("5")},
                     OpenVAError("InterVA_Conf.version (valid options: '4' or '5').")>>,
                   <<q[2] \notin {Str("v"), Str("l"), Str("h")},
                     OpenVAError("InterVA_Conf.HIV (valid options: 'v', 'l', or 'h').")>>,
                   <<q[3] \notin {Str("v"), Str("l"), Str("h")},
                     OpenVAError("InterVA_Conf.Malaria (valid options: 'v', 'l', or 'h').")>> >>
        advanced ==
            IF QueryFails(st, "Advanced_InterVA_Conf")
            THEN Raise("PipelineConfigurationError",
                       "Problem in database table Advanced_InterVA_Conf, ")
            ELSE IF Len(Rows(st, "Advanced_InterVA_Conf")) = 0
            THEN Raise("IndexError", "")
            ELSE
            LET a == Rows(st, "Advanced_InterVA_Conf")[1]
            IN  FirstFailure(
                  << <<~IsStr(pipelineDir) \/ ~IsStr(a[1]), Raise("TypeError", "")>>,
                     <<~JoinedIsDir(pipelineDir, a[1]),
                       OpenVAError("Advanced_InterVA_Conf.directory.")>>,
                     <<a[2] = None \/ a[2] = Str(""),
                       OpenVAError("Advanced_InterVA_Conf.filename.")>>,
                     <<a[3] \notin {Str("classic"), Str("extended")},
                       OpenVAError("Advanced_InterVA_Conf.output.")>>,
                     <<~InTrueFalse(a[4]), OpenVAError("Advanced_InterVA_Conf.append.")>>,
                     <<~InTrueFalse(a[5]), OpenVAError("Advanced_InterVA_Conf.groupcode.")>>,
                     <<~InTrueFalse(a[6]), OpenVAError("Advanced_InterVA_Conf.replicate.")>>,
                     <<~InTrueFalse(a[7]),
                       OpenVAError("Advanced_InterVA_Conf.replicate_bug1.")>>,
                     <<~InTrueFalse(a[8]),
                       OpenVAError("Advanced_InterVA_Conf.replicate_bug2.")>>,
                     <<~InTrueFalse(a[9]), OpenVAError("Advanced_InterVA_Conf.write.")>> >>,
                  Return(q \o a))
    IN  FirstFailure(base, advanced)

-----------------------------------------------------------------------------
(* TransferDB.__configSmartVA__ *)

configSmartVA(st, pipelineDir) ==
    IF QueryFails(st, "SmartVA_Conf")
    THEN Raise("PipelineConfigurationError",
               "Problem in database table SmartVA_Conf, ")
    ELSE IF QueryFails(st, "SmartVA_Country")
    THEN Raise("PipelineConfigurationError",
               "Problem in database table SmartVA_Country, ")
    ELSE IF Len(Rows(st, "SmartVA_Conf")) = 0 THEN Raise("IndexError", "")
    ELSE
    LET q == Rows(st, "SmartVA_Conf")[1]
    IN  FirstFailure(
          << <<q[1] \notin Flatten(Rows(st, "SmartVA_Country")),
               OpenVAError("SmartVA_Conf.country")>>,
             <<~InSmartVATrueFalse(q[2]), OpenVAError("SmartVA_Conf.hiv")>>,
             <<~InSmartVATrueFalse(q[3]), OpenVAError("SmartVA_Conf.malaria")>>,
             <<~InSmartVATrueFalse(q[4]), OpenVAError("SmartVA_Conf.hce")>>,
             <<~InSmartVATrueFalse(q[5]), OpenVAError("SmartVA_Conf.freetext")>>,
             <<~InSmartVATrueFalse(q[6]), OpenVAError("SmartVA_Conf.figures")>>,
             <<q[7] \notin {Str("english"), Str("chinese"), Str("spanish")},
               OpenVAError("SmartVA_Conf.language")>> >>,
          Return(q))

-----------------------------------------------------------------------------
(* TransferDB.__configInSilicoVA__ *)

configInSilicoVA(st, pipelineDir) ==
    IF QueryFails(st, "InSilicoVA_Conf")
    THEN Raise("PipelineConfigurationError",
               "Problem in database table InSilicoVA_Conf, ")
    ELSE IF Len(Rows(st, "InSilicoVA_Conf")) = 0 THEN Raise("IndexError", "")
    ELSE
    LET q == Rows(st, "InSilicoVA_Conf")[1]
        base == << <<q[1] \notin {Str("WHO2012"), Str("WHO2016")},
                     OpenVAError("InSilicoVA_Conf.data_type (valid options: 'WHO2012' or 'WHO2016').")>>,
                   <<IsBlank(q[2]), OpenVAError("InSilicoVA_Conf.Nsim")>> >>
        advanced ==
            IF QueryFails(st, "Advanced_InSilicoVA_Conf")
            THEN Raise("PipelineConfigurationError",
                       "Problem in database table Advanced_InSilicoVA_Conf, ")
            ELSE IF Len(Rows(st, "Advanced_InSilicoVA_Conf")) = 0
            THEN Raise("IndexError", "")
            ELSE
            LET a == Rows(st, "Advanced_InSilicoVA_Conf")[1]
            IN  FirstFailure(
          << <<~InTrueFalse(a[1]),
               OpenVAError("InSilicoVA_Conf.isNumeric (valid options: 'TRUE' or 'FALSE').")>>,
             <<~InTrueFalse(a[2]),
               OpenVAError("InSilicoVA_Conf.updateCondProb (valid options: 'TRUE' or 'FALSE').")>>,
             <<~InTrueFalse(a[3]),
               OpenVAError("InSilicoVA_Conf.keepProbbase_level (valid options: 'TRUE' or 'FALSE').")>>,
             <<IsBlank(a[4]),
               OpenVAError("InSilicoVA_Conf.CondProb (valid options: name of R object).")>>,
             <<~ValidCondProbNum(a[5]),
               OpenVAError("InSilicoVA_Conf.CondProbNum (must be between '0' and '1').")>>,
             <<~InTrueFalse(a[6]),
               OpenVAError("InSilicoVA_Conf.datacheck (valid options: 'TRUE' or 'FALSE').")>>,
             <<~InTrueFalse(a[7]),
               OpenVAError("InSilicoVA_Conf.datacheck_missing (valid options: 'TRUE' or 'FALSE').")>>,
             <<~InTrueFalse(a[8]),
               OpenVAError("InSilicoVA_Conf.warning_write (valid options: 'TRUE' or 'FALSE').")>>,
             <<a[9] # Str("usePipelineVar") /\ (~IsStr(pipelineDir) \/ ~IsStr(a[9])),
               Raise("TypeError", "")>>,
             <<a[9] # Str("usePipelineVar") /\ ~JoinedIsDir(pipelineDir, a[9]),
               OpenVAError("InSilicoVA_Conf.directory (must be valid directory).")>>,
             <<~InTrueFalse(a[10]),
               OpenVAError("InSilicoVA_Conf.external_sep (valid options: 'TRUE' or 'FALSE').")>>,
             <<~IsPositive(a[11]),
               OpenVAError("InSilicoVA_Conf.thin (must be 'thin' > 0.")>>,
             <<~IsPositive(a[12]),
               OpenVAError("InSilicoVA_Conf.burnin (must be 'burnin' > 0.")>>,
             <<~InTrueFalse(a[13]),
               OpenVAError("InSilicoVA_Conf.auto_length (valid options: 'TRUE' or 'FALSE').")>>,
             <<~InUnitInterval(a[14]),
               OpenVAError("InSilicoVA_Conf.conv_csmf (must be between '0' and '1').")>>,
             <<~IsPositive(a[15]),
               OpenVAError("InSilicoVA_Conf.jump_scale (must be greater than '0').")>>,
             <<IsBlank(a[16]),
               OpenVAError("InSilicoVA_Conf.levels_prior (valid options: name of R object).")>>,
             <<~IsPositive(a[17]),
               OpenVAError("InSilicoVA_Conf.levels_strength (must be greater than '0').")>>,
             <<~InUnitInterval(a[18]),
               OpenVAError("InSilicoVA_Conf.trunc_min (must be between '0' and '1').")>>,
             <<~InUnitInterval(a[19]),
               OpenVAError("InSilicoVA_Conf.trunc_max (must be between '0' and '1').")>>,
             <<IsBlank(a[20]),
               OpenVAError("InSilicoVA_Conf.subpop (valid options: name of R object).")>> >>
          \o JavaOptionChecks(a[21]) \o
          << <<~IsNumber(a[22]),
               OpenVAError("InSilicoVA_Conf.seed (must be between a number; preferably an integer).")>>,
             <<IsBlank(a[23]),
               OpenVAError("InSilicoVA_Conf.phy_code (valid options: name of R object).")>>,
             <<IsBlank(a[24]),
               OpenVAError("InSilicoVA_Conf.phy_cat (valid options: name of R object).")>>,
             <<IsBlank(a[25]),
               OpenVAError("InSilicoVA_Conf.phy_unknown (valid options: name of R object).")>>,
             <<IsBlank(a[26]),
               OpenVAError("InSilicoVA_Conf.phy_external (valid options: name of R object).")>>,
             <<IsBlank(a[27]),
               OpenVAError("InSilicoVA_Conf.phy_debias (valid options: name of R object).")>>,
             <<a[28] \notin {Str("subset"), Str("all"), Str("InterVA"), Str("none")},
               OpenVAError("InSilicoVA_Conf.exclude_impossible_cause (valid options: 'subset', 'all', 'InterVA', and 'none').")>>,
             <<~InTrueFalse(a[29]),
               OpenVAError("InSilicoVA_Conf.no_is_missing (valid options: 'TRUE' or 'FALSE').")>>,
             <<~ValidIndivCI(a[30]),
               OpenVAError("InSilicoVA_Conf.indiv_CI (must be between '0' and '1').")>>,
             <<~InTrueFalse(a[31]),
               OpenVAError("InSilicoVA_Conf.groupcode (valid options: 'TRUE' or 'FALSE').")>> >>,
                  Return(q \o a))
    IN  FirstFailure(base, advanced)

-----------------------------------------------------------------------------
(* TransferDB.configOpenVA: the validator the algorithm name selects. *)

Dispatch(algorithm) ==
    IF algorithm \in {Str("InterVA4"), Str("InterVA5")} THEN "__configInterVA__"
    ELSE IF algorithm = Str("InSilicoVA") THEN "__configInSilicoVA__"
    ELSE "__configSmartVA__"

configOpenVA(st, algorithm, pipelineDir) ==
    CASE Dispatch(algorithm) = "__configInterVA__" -> configInterVA(st, pipelineDir)
      [] Dispatch(algorithm) = "__configInSilicoVA__" -> configInSilicoVA(st, pipelineDir)
      [] OTHER -> configSmartVA(st, pipelineDir)

-----------------------------------------------------------------------------
(* TransferDB.connectDB *)

Connection == [t |-> "Connection", v |-> ""]

(* The passphrase the store file is encrypted with. *)
StoreKey == "secret"

(* "PRAGMA key = " + "\"" + self.dbKey + "\"": a double quote in the key     *)
(* that is not doubled ends the literal early and the statement does not   *)
(* parse.                                                                  *)
PragmaKeyParses(key) ==
    \A i \in 1..Len(key) :
        CharAt(key, i) = "\"" =>
            \/ i > 1 /\ CharAt(key, i - 1) = "\""
            \/ i < Len(key) /\ CharAt(key, i + 1) = "\""

(* str(e) of the sqlcipher.DatabaseError the probe raises. *)
ProbeErrorTexts == {"file is not a database", "file is encrypted or is not a database"}

connectDB(present, key, detail) ==
    IF ~present THEN Raise("DatabaseConnectionError", "")
    ELSE IF ~PragmaKeyParses(key) THEN Raise("OperationalError", "")
    ELSE IF key # StoreKey
    THEN Raise("DatabaseConnectionError", "Database password error," \o detail)
    ELSE Return(<<Connection>>)

(* The keys callers construct TransferDB with. *)
Keys == {StoreKey, "wrong", "wr\"ong"}

-----------------------------------------------------------------------------
(* TransferDB.storeVA: the body is "pass"; the call takes no record and    *)
(* returns None.                                                           *)

storeVA == Return(<<None>>)

(* The submission identifiers of the VA records a store may hold. *)
SubmissionIds == {"uuid:1", "uuid:2"}

-----------------------------------------------------------------------------
(* The content of the store: a valid configuration, and the ways the model *)
(* departs from it.                                                        *)

ConfigTables ==
    {"Pipeline_Conf", "ODK_Conf", "InterVA_Conf", "Advanced_InterVA_Conf",
     "InSilicoVA_Conf", "Advanced_InSilicoVA_Conf", "SmartVA_Conf", "DHIS_Conf"}

ReferenceTables == {"Algorithm_Metadata_Options", "SmartVA_Country"}

Tables == ConfigTables \cup ReferenceTables

(* The tables whose loader formats a date: the only ones for which the     *)
(* platform's strftime matters, so the only ones varied on both platforms. *)
DateTables == {"ODK_Conf"}

MetadataCode == Str("InterVA5|5|InterVA|5|2016 WHO Verbal Autopsy Form|v1_4_1")

BaseRow(t) ==
    CASE t = "Pipeline_Conf" ->
           <<MetadataCode, Str("WHO"), Str("InterVA"), Str("/wd")>>
      [] t = "ODK_Conf" ->
           <<Str("1"), Str("https://odk.example.org"), Str("odk_user"),
             Str("odk_password"), Str("va_form"), Str("2023-05-10_23:59:00"),
             Str("success")>>
      [] t = "InterVA_Conf" -> <<Str("5"), Str("h"), Str("h")>>
      [] t = "Advanced_InterVA_Conf" ->
           <<Str("InterVA"), Str("VA5_result"), Str("classic"), Str("FALSE"),
             Str("FALSE"), Str("FALSE"), Str("FALSE"), Str("FALSE"), Str("TRUE")>>
      [] t = "InSilicoVA_Conf" -> <<Str("WHO2016"), Str("4000")>>
      [] t = "Advanced_InSilicoVA_Conf" ->
           <<Str("FALSE"), Str("TRUE"), Str("TRUE"), Str("NULL"), Str("NULL"),
             Str("TRUE"), Str("TRUE"), Str("FALSE"), Str("InSilicoVA"),
             Str("TRUE"), Str("10"), Str("2000"), Str("TRUE"), Str("0.02"),
             Str("0.1"), Str("NULL"), Str("1"), Str("0.0001"), Str("0.9999"),
             Str("NULL"), Str("-Xmx1g"), Str("1"), Str("NULL"), Str("NULL"),
             Str("NULL"), Str("NULL"), Str("NULL"), Str("subset"), Str("FALSE"),
             Str("NULL"), Str("FALSE")>>
      [] t = "SmartVA_Conf" ->
           <<Str("Unknown"), Str("False"), Str("False"), Str("False"),
             Str("True"), Str("True"), Str("english")>>
      [] t = "DHIS_Conf" ->
           <<Str("https://dhis.example.org"), Str("va-demo"), Str("dhis_password"),
             Str("SCVeBskgiK6")>>

BaseRows(t) ==
    CASE t = "Algorithm_Metadata_Options" ->
           << <<Str("InSilicoVA|1.1.4|Custom|1|2016 WHO Verbal Autopsy Form|v1_4_1")>>,
              <<MetadataCode>> >>
      [] t = "SmartVA_Country" -> << <<Str("Unknown")>>, <<Str("AFG")>> >>
      [] OTHER -> <<BaseRow(t)>>

BaseStore == [t \in Tables |-> [ok |-> TRUE, rows |-> BaseRows(t)]]

Strs(S) == {Str(s) : s \in S}

BoolTexts == Strs({"TRUE", "FALSE", "True", "False", "true", ""}) \cup {None}

NameTexts == Strs({"NULL", "probbase", ""}) \cup {None}

UnitTexts ==
    Strs({"0", "1", "0.5", "1.0", "1.5", "-0.5", "-0", "NULL", "abc", "", "nan",
          "inf", " 1 "}) \cup {None}

PositiveTexts ==
    Strs({"0", "0.0", "-1", "0.5", "10", "NULL", "abc", "", "nan", "inf"}) \cup {None}

JavaOptionTexts ==
    Strs({"-Xmx1g", "-Xmx512m", "-Xmx1.5g", "-Xmx1k", "-Xmx1G", "1g", "-Xmx0g",
          "-Xmx0.0m", "-Xmxabg", "-Xmx-1g", "-Xmxg", "-xmx1g", "-Xms1g",
          "-Xmx1gg", "-Xmx1", " -Xmx1g", "-Xmxinfg", "-Xmxnanm", "-Xmx 2 m",
          "1024mb", ""}) \cup {None}

StampTexts ==
    Strs({"2023-05-10_23:59:00", "2023-05-10_00:00:00", "2023-5-1_1:2:3",
          "2023-03-01_12:00:00", "2024-03-01_12:00:00", "2024-02-29_08:30:00",
          "2000-03-01_00:00:00", "1900-03-01_00:00:00", "2100-03-01_00:00:00",
          "2024-01-01_00:00:00", "2023-12-31_23:59:59", "2023-07-01_00:00:00",
          "2023-08-01_00:00:00", "2023-05- 1_00:00:00", "9999-12-31_23:59:59",
          "1000-01-02_00:00:00", "1000-01-01_00:00:00", "0999-05-10_01:02:03",
          "0001-01-02_00:00:00", "0001-01-01_00:00:00", "0000-01-01_00:00:00",
          "2023-02-29_00:00:00", "2023-04-31_00:00:00", "2023-13-01_00:00:00",
          "2023-05-10_24:00:00", "2023-05-10_23:60:00", "2023-05-10_23:59:60",
          "2023-05-10", "2023/05/10_23:59:00", "2023-05-10 23:59:00",
          "2023-05-10_23:59:00 ", "23-05-10_23:59:00", "yesterday", ""})
    \cup {None}

(* The values the model writes into a column of a configuration table:     *)
(* pairs <<column, value>>.                                                *)
Col(c, S) == {<<c, x>> : x \in S}

Edits(t) ==
    CASE t = "Pipeline_Conf" ->
           Col(1, {MetadataCode, Str("SmartVA|2.0"), Str(""), None})
           \cup Col(2, Strs({"ICD10", "WHO", "Tariff", "icd10", "ICD11", ""}) \cup {None})
           \cup Col(3, Strs({"InterVA", "InterVA4", "InterVA5", "InSilicoVA",
                             "Insilico", "SmartVA", "insilicova", ""}) \cup {None})
           \cup Col(4, Strs({"/wd", "/wd/", "/nowhere", "wd", ""}) \cup {None})
      [] t = "ODK_Conf" ->
           Col(1, {Str("1"), None})
           \cup Col(2, Strs({"https://odk.example.org", "http://odk.example.org",
                             "http://", "https:/", "ftp://odk.example.org",
                             "HTTP://odk.example.org", "odk.example.org", ""})
                       \cup {None})
           \cup Col(3, {Str("odk_user"), Str(""), None})
           \cup Col(6, StampTexts)
           \cup Col(7, Strs({"success", "fail", "Success", "failed", ""}) \cup {None})
      [] t = "InterVA_Conf" ->
           Col(1, Strs({"4", "5", "6", "4.0", ""}) \cup {None})
           \cup Col(2, Strs({"v", "l", "h", "H", ""}) \cup {None})
           \cup Col(3, Strs({"v", "l", "h", "x", ""}) \cup {None})
      [] t = "Advanced_InterVA_Conf" ->
           Col(1, Strs({"InterVA", "/wd/InterVA", "missing", "usePipelineVar", ""})
                  \cup {None})
           \cup Col(2, Strs({"VA5_result", ""}) \cup {None})
           \cup Col(3, Strs({"classic", "extended", "Classic", ""}) \cup {None})
           \cup UNION {Col(c, BoolTexts) : c \in 4..9}
      [] t = "InSilicoVA_Conf" ->
           Col(1, Strs({"WHO2012", "WHO2016", "WHO2020", ""}) \cup {None})
           \cup Col(2, Strs({"4000", ""}) \cup {None})
      [] t = "Advanced_InSilicoVA_Conf" ->
           UNION {Col(c, BoolTexts) : c \in {1, 2, 3, 6, 7, 8, 10, 13, 29, 31}}
           \cup UNION {Col(c, NameTexts) : c \in {4, 16, 20, 23, 24, 25, 26, 27}}
           \cup UNION {Col(c, UnitTexts) : c \in {5, 14, 18, 19, 30}}
           \cup Col(30, Strs({"0.0001", "0.9999"}))
           \cup UNION {Col(c, PositiveTexts) : c \in {11, 12, 15, 17}}
           \cup Col(9, Strs({"InSilicoVA", "/wd/InSilicoVA", "missing",
                             "usePipelineVar", ""}) \cup {None})
           \cup Col(21, JavaOptionTexts)
           \cup Col(22, Strs({"1", "-3.5", "abc", "NULL", ""}) \cup {None})
           \cup Col(28, Strs({"subset", "all", "InterVA", "none", "None", ""})
                        \cup {None})
      [] t = "SmartVA_Conf" ->
           Col(1, Strs({"Unknown", "AFG", "XYZ", ""}) \cup {None})
           \cup UNION {Col(c, BoolTexts) : c \in 2..6}
           \cup Col(7, Strs({"english", "chinese", "spanish", "french", ""})
                       \cup {None})
      [] t = "DHIS_Conf" ->
           Col(1, Strs({"https://dhis.example.org", "http://dhis.example.org",
                        "dhis.example.org", "https//dhis", ""}) \cup {None})
           \cup UNION {Col(c, Strs({"va-demo", ""}) \cup {None}) : c \in 2..4}

(* A second column of the same row holding NULL. *)
Blanks(t) == {<<c, None>> : c \in 1..Len(BaseRow(t))}

Edit(row, e) == [row EXCEPT ![e[1]] = e[2]]

(* Bounds *)
MaxRows == 2

MaxOpen == 2

MaxRuns == 2

MaxCalls == 2

(* The rows a table may hold after its first: valid rows or rows of NULLs. *)
NullRow(t) == [c \in 1..Len(BaseRow(t)) |-> None]

RECURSIVE RowTails(_, _)
RowTails(t, n) ==
    IF n = 0 THEN {<<>>}
    ELSE LET shorter == RowTails(t, n - 1)
         IN  shorter \cup {<<r>> \o tl : r \in {BaseRow(t), NullRow(t)},
                                         tl \in {x \in shorter : Len(x) = n - 1}}

WithTable(t, tv) == [BaseStore EXCEPT ![t] = tv]

WithRows(t, rows) == WithTable(t, [ok |-> TRUE, rows |-> rows])

(* st is the valid configuration with one table of ts changed: the table  *)
(* is missing or garbled (and a second table may then be empty or have one *)
(* column of its row changed), or empty, or its first row has one column   *)
(* changed and possibly a second one NULL, or further rows follow the      *)
(* first.                                                                  *)
IsStore(st, ts) ==
    \E t \in ts :
        \/ st = WithTable(t, [ok |-> FALSE, rows |-> <<>>])
        \/ \E u \in (ts \cap ConfigTables) \ {t} :
              \E rows \in {<<>>} \cup {<<Edit(BaseRow(u), e)>> : e \in Edits(u)} :
                 st = [BaseStore EXCEPT ![t] = [ok |-> FALSE, rows |-> <<>>],
                                        ![u] = [ok |-> TRUE, rows |-> rows]]
        \/ st = WithRows(t, <<>>)
        \/ /\ t \in ConfigTables
           /\ \E e1 \in Edits(t), e2 \in Blanks(t) :
                 st = WithRows(t, <<Edit(Edit(BaseRow(t), e1), e2)>>)
        \/ /\ t \in ConfigTables
           /\ \E e1 \in Edits(t), tl \in RowTails(t, MaxRows - 1) :
                 st = WithRows(t, <<Edit(BaseRow(t), e1)>> \o tl)

(* The arguments callers pass to configOpenVA. *)
AlgorithmArgs ==
    Strs({"InterVA", "InterVA4", "InterVA5", "InSilicoVA", "Insilico", "SmartVA"})

PipelineDirArgs == {Str("/wd")}

-----------------------------------------------------------------------------
(* The state machine *)

NoCall == [op |-> "", args |-> <<>>, ran |-> "", out |-> Return(<<>>)]

Call(op, args, ran, out) == [op |-> op, args |-> args, ran |-> ran, out |-> out]

(* What is observed of one run of the pipeline: the outcomes of its        *)
(* configODK calls in order, and whether storeVA was called.               *)
NoRun == [windows |-> <<>>, stored |-> FALSE]

Init ==
    /\ dbFilePresent \in BOOLEAN
    /\ dbKey \in Keys
    /\ padYear \in BOOLEAN
    /\ IF dbFilePresent /\ dbKey = StoreKey
       THEN IsStore(store, IF padYear THEN DateTables ELSE Tables)
       ELSE store = BaseStore
    /\ vaStorage \in (IF store = BaseStore THEN SUBSET SubmissionIds ELSE {{}})
    /\ opened = 0
    /\ held = FALSE
    /\ result = NoCall
    /\ runs = <<NoRun>>

Connect ==
    /\ ~held
    /\ opened < MaxOpen
    /\ \E detail \in ProbeErrorTexts :
          result' = Call("connectDB", <<>>, "", connectDB(dbFilePresent, dbKey, detail))
    /\ opened' = IF dbFilePresent THEN opened + 1 ELSE opened
    /\ held' = (dbFilePresent /\ dbKey = StoreKey)
    /\ UNCHANGED <<store, dbFilePresent, dbKey, padYear, vaStorage>>

ConfigPipeline ==
    /\ held
    /\ result' = Call("configPipeline", <<>>, "", configPipeline(store))
    /\ UNCHANGED <<store, dbFilePresent, dbKey, opened, held, padYear, vaStorage>>

(* configODK, were it to move odkLastRun to the start of the window it     *)
(* returns.                                                                *)
ConfigODKMovingLastRun ==
    /\ held
    /\ result' = Call("configODK", <<>>, "", configODK(store, padYear))
    /\ store' = IF result'.out.kind = "return"
                THEN [store EXCEPT !["ODK_Conf"].rows[1][6] =
                                       Str(result'.out.value[9].v \o "_00:00:00")]
                ELSE store
    /\ UNCHANGED <<dbFilePresent, dbKey, opened, held, padYear, vaStorage>>

(* configODK, were it to record a failed run in ODK_Conf as it goes. *)
ConfigODKRecordingRun ==
    /\ held
    /\ result' = Call("configODK", <<>>, "", configODK(store, padYear))
    /\ store' = IF store["ODK_Conf"].ok /\ Len(store["ODK_Conf"].rows) > 0
                THEN [store EXCEPT !["ODK_Conf"].rows[1][7] = Str("fail")]
                ELSE store
    /\ UNCHANGED <<dbFilePresent, dbKey, opened, held, padYear, vaStorage>>

ConfigODK ==
    /\ held
    /\ result' = Call("configODK", <<>>, "", configODK(store, padYear))
    /\ UNCHANGED <<store, dbFilePresent, dbKey, opened, held, padYear, vaStorage>>

ConfigOpenVA ==
    /\ held
    /\ \E algorithm \in AlgorithmArgs, pipelineDir \in PipelineDirArgs :
          result' = Call("configOpenVA", <<algorithm, pipelineDir>>,
                         Dispatch(algorithm),
                         configOpenVA(store, algorithm, pipelineDir))
    /\ UNCHANGED <<store, dbFilePresent, dbKey, opened, held, padYear, vaStorage>>

ConfigDHIS ==
    /\ held
    /\ result' = Call("configDHIS", <<>>, "", configDHIS(store))
    /\ UNCHANGED <<store, dbFilePresent, dbKey, opened, held, padYear, vaStorage>>

(* storeVA, were it to move odkLastRun on with each record it stores. *)
StoreVAAdvancingLastRun ==
    /\ result' = Call("storeVA", <<>>, "", storeVA)
    /\ store' = IF store["ODK_Conf"].ok /\ Len(store["ODK_Conf"].rows) > 0
                THEN [store EXCEPT !["ODK_Conf"].rows[1][6] = Str("2021-03-04_05:06:07")]
                ELSE store
    /\ UNCHANGED <<dbFilePresent, dbKey, opened, held, padYear, vaStorage>>

StoreVA ==
    /\ result' = Call("storeVA", <<>>, "", storeVA)
    /\ UNCHANGED <<store, dbFilePresent, dbKey, opened, held, padYear, vaStorage>>

(* Single calls on one TransferDB object; no history of runs is kept. *)
Next ==
    \/ Connect /\ UNCHANGED runs
    \/ ConfigPipeline /\ UNCHANGED runs
    \/ ConfigODK /\ UNCHANGED runs
    \/ ConfigOpenVA /\ UNCHANGED runs
    \/ ConfigDHIS /\ UNCHANGED runs
    \/ StoreVA /\ UNCHANGED runs

Spec == Init /\ [][Next]_vars

(* Runs of the pipeline one after the other on the same store file. A run  *)
(* constructs its TransferDB, connects, loads the ODK configuration and     *)
(* stores VA records; it may end after any call, and no method of           *)
(* TransferDB writes a run outcome to the store. The store is the valid    *)
(* configuration with one column of the ODK_Conf row changed.              *)
NewRun ==
    /\ Len(runs) < MaxRuns
    /\ runs' = Append(runs, NoRun)
    /\ opened' = 0
    /\ held' = FALSE
    /\ result' = NoCall
    /\ UNCHANGED <<store, dbFilePresent, dbKey, padYear, vaStorage>>

RunInit ==
    /\ dbFilePresent \in BOOLEAN
    /\ dbKey \in Keys
    /\ padYear \in BOOLEAN
    /\ IF dbFilePresent /\ dbKey = StoreKey
       THEN \E e \in Edits("ODK_Conf") :
               store = WithRows("ODK_Conf", <<Edit(BaseRow("ODK_Conf"), e)>>)
       ELSE store = BaseStore
    /\ vaStorage = {}
    /\ opened = 0
    /\ held = FALSE
    /\ result = NoCall
    /\ runs = <<NoRun>>

RunNext ==
    \/ Connect /\ UNCHANGED runs
    \/ /\ Len(runs[Len(runs)].windows) < MaxCalls
       /\ ConfigODK
       /\ runs' = [runs EXCEPT ![Len(runs)].windows = Append(@, result'.out)]
    \/ StoreVA /\ runs' = [runs EXCEPT ![Len(runs)].stored = TRUE]
    \/ NewRun

RunSpec == RunInit /\ [][RunNext]_vars

-----------------------------------------------------------------------------
(* The columns each SELECT lists, in order, and the table name the error   *)
(* messages give them.                                                     *)

Columns(t) ==
    CASE t = "Pipeline_Conf" ->
           <<"algorithmMetadataCode", "codSource", "algorithm", "workingDirectory">>
      [] t = "ODK_Conf" ->
           <<"odkID", "odkURL", "odkUser", "odkPassword", "odkFormID", "odkLastRun",
             "odkLastRunResult">>
      [] t = "InterVA_Conf" -> <<"version", "HIV", "Malaria">>
      [] t = "Advanced_InterVA_Conf" ->
           <<"directory", "filename", "output", "append", "groupcode", "replicate",
             "replicate_bug1", "replicate_bug2", "write">>
      [] t = "InSilicoVA_Conf" -> <<"data_type", "Nsim">>
      [] t = "Advanced_InSilicoVA_Conf" ->
           <<"isNumeric", "updateCondProb", "keepProbbase_level", "CondProb",
             "CondProbNum", "datacheck", "datacheck_missing", "warning_write",
             "directory", "external_sep", "thin", "burnin", "auto_length",
             "conv_csmf", "jump_scale", "levels_prior", "levels_strength",
             "trunc_min", "trunc_max", "subpop", "java_option", "seed", "phy_code",
             "phy_cat", "phy_unknown", "phy_external", "phy_debias",
             "exclude_impossible_cause", "no_is_missing", "indiv_CI", "groupcode">>
      [] t = "SmartVA_Conf" ->
           <<"country", "hiv", "malaria", "hce", "freetext", "figures", "language">>
      [] t = "DHIS_Conf" -> <<"dhisURL", "dhisUser", "dhisPassword", "dhisOrgUnit">>

MessageTable(t) == IF t = "Advanced_InSilicoVA_Conf" THEN "InSilicoVA_Conf" ELSE t

-----------------------------------------------------------------------------
(* Vocabulary of the properties *)

(* The qualified field name occurs in the message as a whole word. *)
Mentions(msg, q) ==
    \E i \in 1..Len(msg) :
        /\ i + Len(q) - 1 <= Len(msg)
        /\ SubSeq(msg, i, i + Len(q) - 1) = q
        /\ (i = 1 \/ CharAt(msg, i - 1) = " ")
        /\ \/ i + Len(q) - 1 = Len(msg)
           \/ CharAt(msg, i + Len(q)) \in {" ", ".", ","}

Called(op) == result.op = op

Ran(validator) == result.op = "configOpenVA" /\ result.ran = validator

Returned == result.op # "" /\ result.out.kind = "return"

Raised(exc) == result.out.kind = "raise" /\ result.out.exc = exc

(* The call raised exc with a message naming column c of table t. *)
RaisedNaming(exc, t, c) ==
    /\ Raised(exc)
    /\ Mentions(result.out.msg, MessageTable(t) \o "." \o Columns(t)[c])

HasRow(t) == store[t].ok /\ Len(store[t].rows) > 0

FirstRow(t) == store[t].rows[1]

(* Column c of the single row of t is the only departure from the valid    *)
(* configuration: all other fields are valid.                              *)
OnlyDeparture(t, c) ==
    /\ store[t].ok
    /\ Len(store[t].rows) = 1
    /\ \A k \in 1..Len(BaseRow(t)) : k # c => FirstRow(t)[k] = BaseRow(t)[k]
    /\ \A u \in Tables \ {t} : store[u] = BaseStore[u]

PipelineErrorKinds ==
    {"DatabaseConnectionError", "PipelineConfigurationError", "ODKConfigurationError",
     "OpenVAConfigurationError", "DHISConfigurationError"}

-----------------------------------------------------------------------------
(* What the specification says of the core pipeline fields. *)

SpecAlgorithms == Strs({"InterVA", "InSilicoVA", "SmartVA", "InterVA5"})

SpecCodSources == Strs({"ICD10", "WHO", "Tariff"})

SpecMetadataCodeValid(x) ==
    \E i \in 1..Len(store["Algorithm_Metadata_Options"].rows) :
        store["Algorithm_Metadata_Options"].rows[i][1] = x

SpecIsExistingDir(x) == IsStr(x) /\ StripSlashes(x.v) \in ExistingDirs

(* C1: with a Pipeline_Conf row whose other fields are valid,              *)
(* configPipeline returns exactly when algorithm is one of InterVA,        *)
(* InSilicoVA, SmartVA, InterVA5, and otherwise raises                     *)
(* PipelineConfigurationError naming Pipeline_Conf.algorithm.              *)
C1_AlgorithmAccepted ==
    (Called("configPipeline") /\ OnlyDeparture("Pipeline_Conf", 3)) =>
        IF FirstRow("Pipeline_Conf")[3] \in SpecAlgorithms
        THEN Returned
        ELSE RaisedNaming("PipelineConfigurationError", "Pipeline_Conf", 3)

(* The validator of an algorithm's own family. *)
SpecFamily(algorithm) ==
    CASE algorithm \in Strs({"InterVA", "InterVA4", "InterVA5"}) -> "__configInterVA__"
      [] algorithm \in Strs({"InSilicoVA", "Insilico"}) -> "__configInSilicoVA__"
      [] algorithm = Str("SmartVA") -> "__configSmartVA__"

(* C2: configOpenVA called with an algorithm value that configPipeline     *)
(* accepts runs the validator of that algorithm's own family.              *)
C2_OwnFamilyValidator ==
    (Called("configOpenVA") /\ result.args[1] \in PipelineAlgorithms) =>
        result.ran = SpecFamily(result.args[1])

(* The configuration tables a call reads before it looks at any field. *)
TablesRead ==
    CASE Called("configPipeline") -> {"Pipeline_Conf"}
      [] Called("configODK") -> {"ODK_Conf"}
      [] Called("configDHIS") -> {"DHIS_Conf"}
      [] Ran("__configInterVA__") -> {"InterVA_Conf", "Advanced_InterVA_Conf"}
      [] Ran("__configInSilicoVA__") -> {"InSilicoVA_Conf", "Advanced_InSilicoVA_Conf"}
      [] Ran("__configSmartVA__") -> {"SmartVA_Conf"}
      [] OTHER -> {}

ReadsEmptyTable ==
    /\ \A t \in Tables : store[t].ok
    /\ \E t \in TablesRead : store[t].rows = <<>>

(* C3: a loader that reads a configuration table with no rows raises       *)
(* PipelineConfigurationError.                                             *)
C3_EmptyTableRaisesPipelineError ==
    ReadsEmptyTable => Raised("PipelineConfigurationError")

(* C4: configODK on an odkLastRun that does not parse with                 *)
(* %Y-%m-%d_%H:%M:%S (the other fields valid) fails with                   *)
(* ODKConfigurationError.                                                  *)
C4_MalformedLastRunRaisesODKError ==
    (/\ Called("configODK")
     /\ OnlyDeparture("ODK_Conf", 6)
     /\ ~StrptimeStamp(FirstRow("ODK_Conf")[6]).ok)
        => Raised("ODKConfigurationError")

(* C5: every failing outcome of connectDB and of the loaders is one of the *)
(* five pipeline error kinds.                                              *)
C5_OnlyPipelineErrorsEscape ==
    result.out.kind = "raise" => result.out.exc \in PipelineErrorKinds

-----------------------------------------------------------------------------
(* The calendar, as the specification speaks of it. *)

SpecMonthLength(y, m) ==
    LET leap == (y % 4 = 0 /\ y % 100 # 0) \/ y % 400 = 0
    IN  <<31, IF leap THEN 29 ELSE 28, 31, 30, 31, 30, 31, 31, 30, 31, 30, 31>>[m]

(* One calendar day earlier. *)
SpecPrevDay(y, m, d) ==
    IF d > 1 THEN <<y, m, d - 1>>
    ELSE IF m > 1 THEN <<y, m - 1, SpecMonthLength(y, m - 1)>>
    ELSE <<y - 1, 12, 31>>

(* YYYY/MM/DD *)
SpecDateText(ymd) ==
    Str(ZeroPad(IntStr(ymd[1]), 4) \o "/" \o ZeroPad(IntStr(ymd[2]), 2)
        \o "/" \o ZeroPad(IntStr(ymd[3]), 2))

ResumeDatesRight ==
    LET t == StrptimeStamp(FirstRow("ODK_Conf")[6])
    IN  /\ Returned
        /\ result.out.value[8] = SpecDateText(<<t.y, t.m, t.d>>)
        /\ result.out.value[9] = SpecDateText(SpecPrevDay(t.y, t.m, t.d))

(* C6: for every odkLastRun that parses (the other fields valid),          *)
(* configODK returns odkLastRunDate, the date part as YYYY/MM/DD, and      *)
(* odkLastRunDatePrev, one calendar day earlier; 2023-05-10_23:59:00 gives *)
(* 2023/05/10 and 2023/05/09.                                              *)
C6_ResumeDates ==
    (/\ Called("configODK")
     /\ OnlyDeparture("ODK_Conf", 6)
     /\ StrptimeStamp(FirstRow("ODK_Conf")[6]).ok)
        => /\ ResumeDatesRight
           /\ FirstRow("ODK_Conf")[6] = Str("2023-05-10_23:59:00") =>
                 /\ result.out.value[8] = Str("2023/05/10")
                 /\ result.out.value[9] = Str("2023/05/09")

(* C6, for the timestamps from 1000-01-02 on: the part of C6 that holds on *)
(* every platform.                                                         *)
C6_ResumeDatesFromYear1000 ==
    (/\ Called("configODK")
     /\ OnlyDeparture("ODK_Conf", 6)
     /\ StrptimeStamp(FirstRow("ODK_Conf")[6]).ok
     /\ LET t == StrptimeStamp(FirstRow("ODK_Conf")[6])
        IN  t.y > 1000 \/ (t.y = 1000 /\ (t.m > 1 \/ t.d > 1)))
        => ResumeDatesRight

(* The call raised exc with a message naming column c of table t and no    *)
(* other column of t.                                                      *)
RaisedNamingOnly(exc, t, c) ==
    /\ RaisedNaming(exc, t, c)
    /\ \A k \in 1..Len(Columns(t)) :
          k # c => ~Mentions(result.out.msg, MessageTable(t) \o "." \o Columns(t)[k])

SingleRowOf(t) ==
    /\ \A u \in Tables : store[u].ok
    /\ Len(store[t].rows) = 1
    /\ \A u \in Tables \ {t} : store[u] = BaseStore[u]

(* C7: configPipeline raises PipelineConfigurationError naming the first   *)
(* of algorithmMetadataCode, codSource, algorithm, workingDirectory that   *)
(* violates its constraint, and only that one; it returns when none does.  *)
C7_FirstViolationNamed ==
    (Called("configPipeline") /\ SingleRowOf("Pipeline_Conf")) =>
        LET r == FirstRow("Pipeline_Conf")
            E == "PipelineConfigurationError"
        IN  IF ~SpecMetadataCodeValid(r[1]) THEN RaisedNamingOnly(E, "Pipeline_Conf", 1)
            ELSE IF r[2] \notin SpecCodSources THEN RaisedNamingOnly(E, "Pipeline_Conf", 2)
            ELSE IF r[3] \notin SpecAlgorithms THEN RaisedNamingOnly(E, "Pipeline_Conf", 3)
            ELSE IF ~SpecIsExistingDir(r[4]) THEN RaisedNamingOnly(E, "Pipeline_Conf", 4)
            ELSE Returned

(* C7, with the algorithm names the code accepts and a workingDirectory    *)
(* that is a string: the order of the checks alone.                        *)
C7_OrderOfChecks ==
    (/\ Called("configPipeline")
     /\ SingleRowOf("Pipeline_Conf")
     /\ IsStr(FirstRow("Pipeline_Conf")[4]))
        => LET r == FirstRow("Pipeline_Conf")
               E == "PipelineConfigurationError"
           IN  IF ~SpecMetadataCodeValid(r[1]) THEN RaisedNamingOnly(E, "Pipeline_Conf", 1)
               ELSE IF r[2] \notin SpecCodSources
                    THEN RaisedNamingOnly(E, "Pipeline_Conf", 2)
               ELSE IF r[3] \notin PipelineAlgorithms
                    THEN RaisedNamingOnly(E, "Pipeline_Conf", 3)
               ELSE IF ~SpecIsExistingDir(r[4])
                    THEN RaisedNamingOnly(E, "Pipeline_Conf", 4)
               ELSE Returned

-----------------------------------------------------------------------------
(* The boolean-as-string fields: <<validator, table, column>>. *)

BooleanFields ==
    {<<"__configInterVA__", "Advanced_InterVA_Conf", c>> : c \in 4..9}
    \cup {<<"__configInSilicoVA__", "Advanced_InSilicoVA_Conf", c>> :
             c \in {1, 2, 3, 6, 7, 8, 10, 13, 29, 31}}
    \cup {<<"__configSmartVA__", "SmartVA_Conf", c>> : c \in 2..6}

(* C8: in every family validator each boolean-as-string field is accepted  *)
(* if and only if it is exactly "TRUE" or exactly "FALSE"; any other value *)
(* raises OpenVAConfigurationError.                                        *)
C8_BooleansAreTrueFalse ==
    \A f \in BooleanFields :
        (Ran(f[1]) /\ OnlyDeparture(f[2], f[3])) =>
            IF FirstRow(f[2])[f[3]] \in {Str("TRUE"), Str("FALSE")}
            THEN Returned
            ELSE RaisedNaming("OpenVAConfigurationError", f[2], f[3])

(* The two spellings a boolean-as-string field of table t may have. *)
SpecBooleans(t) ==
    IF t = "SmartVA_Conf" THEN {Str("True"), Str("False")}
    ELSE {Str("TRUE"), Str("FALSE")}

(* C8, amended: the InterVA and InSilicoVA validators accept a boolean-    *)
(* as-string field if and only if it is exactly "TRUE" or "FALSE", the     *)
(* SmartVA validator if and only if it is exactly "True" or "False"; a     *)
(* validator that returns found every such field so, one that names such a *)
(* field raises OpenVAConfigurationError and found it otherwise, and a     *)
(* field that is the only departure from a valid configuration is named.   *)
C8_BooleansPerFamily ==
    \A f \in BooleanFields :
        Ran(f[1]) =>
            /\ Returned => FirstRow(f[2])[f[3]] \in SpecBooleans(f[2])
            /\ (\E e \in PipelineErrorKinds \cup {"TypeError", "IndexError"} :
                   RaisedNaming(e, f[2], f[3]))
                  => /\ Raised("OpenVAConfigurationError")
                     /\ FirstRow(f[2])[f[3]] \notin SpecBooleans(f[2])
            /\ OnlyDeparture(f[2], f[3]) =>
                  IF FirstRow(f[2])[f[3]] \in SpecBooleans(f[2])
                  THEN Returned
                  ELSE RaisedNaming("OpenVAConfigurationError", f[2], f[3])

(* "TRUE" in SmartVA_Conf.hiv is refused. *)
C8_SmartVARefusesUpperCase ==
    /\ Ran("__configSmartVA__")
    /\ OnlyDeparture("SmartVA_Conf", 2)
    /\ FirstRow("SmartVA_Conf")[2] = Str("TRUE")
    /\ RaisedNaming("OpenVAConfigurationError", "SmartVA_Conf", 2)

-----------------------------------------------------------------------------
(* The probability-like fields of Advanced_InSilicoVA_Conf: CondProbNum,   *)
(* conv_csmf, trunc_min, trunc_max.                                        *)

UnitFields == {5, 14, 18, 19}

(* The texts of the model that are numbers of [0, 1], written out. *)
SpecUnitTexts ==
    Strs({"0", "1", "0.5", "1.0", "-0", " 1 ", "0.02", "0.0001", "0.9999"})

SpecUnitAllowed(c) == SpecUnitTexts \cup (IF c = 5 THEN {Str("NULL")} ELSE {})

(* C9: the InSilicoVA validator accepts each of CondProbNum, conv_csmf,    *)
(* trunc_min, trunc_max if and only if it is a number of [0, 1], 0 and 1   *)
(* included, or, for CondProbNum alone, the string "NULL"; a rejected      *)
(* value raises OpenVAConfigurationError.                                  *)
C9_UnitInterval ==
    LET t == "Advanced_InSilicoVA_Conf"
    IN  \A c \in UnitFields :
          Ran("__configInSilicoVA__") =>
            /\ Returned => FirstRow(t)[c] \in SpecUnitAllowed(c)
            /\ (\E e \in PipelineErrorKinds \cup {"TypeError", "IndexError"} :
                   RaisedNaming(e, t, c))
                  => /\ Raised("OpenVAConfigurationError")
                     /\ FirstRow(t)[c] \notin SpecUnitAllowed(c)
            /\ OnlyDeparture(t, c) =>
                  IF FirstRow(t)[c] \in SpecUnitAllowed(c)
                  THEN Returned
                  ELSE RaisedNaming("OpenVAConfigurationError", t, c)

(* CondProbNum = "1.5" is refused. *)
C9_CondProbNumTooLarge ==
    /\ Ran("__configInSilicoVA__")
    /\ OnlyDeparture("Advanced_InSilicoVA_Conf", 5)
    /\ FirstRow("Advanced_InSilicoVA_Conf")[5] = Str("1.5")
    /\ RaisedNaming("OpenVAConfigurationError", "Advanced_InSilicoVA_Conf", 5)

-----------------------------------------------------------------------------
(* Advanced_InSilicoVA_Conf.java_option, the 21st column selected. *)

(* The bodies of the model's java_option texts that are numbers greater    *)
(* than 0, written out ("inf" is one to Python's float).                   *)
SpecPositiveBodies == {"1", "512", "1.5", "inf", " 2 "}

(* "-Xmx", a number greater than 0, and one last character "m" or "g". *)
SpecJavaOption(x) ==
    /\ IsStr(x)
    /\ Len(x.v) >= 5
    /\ SubSeq(x.v, 1, 4) = "-Xmx"
    /\ SubSeq(x.v, Len(x.v), Len(x.v)) \in {"m", "g"}
    /\ SubSeq(x.v, 5, Len(x.v) - 1) \in SpecPositiveBodies

(* C10: the InSilicoVA validator accepts java_option if and only if it is  *)
(* "-Xmx", then a number greater than 0, then one character "m" or "g":    *)
(* "-Xmx1g" is accepted; "-Xmx1k", "1g", a body of 0 and a body that is no *)
(* number raise OpenVAConfigurationError.                                  *)
C10_JavaOption ==
    LET t == "Advanced_InSilicoVA_Conf"
        c == 21
    IN  Ran("__configInSilicoVA__") =>
          /\ Returned => SpecJavaOption(FirstRow(t)[c])
          /\ (\E e \in PipelineErrorKinds \cup {"TypeError", "IndexError"} :
                 RaisedNaming(e, t, c))
                => /\ Raised("OpenVAConfigurationError")
                   /\ ~SpecJavaOption(FirstRow(t)[c])
          /\ OnlyDeparture(t, c) =>
                /\ SpecJavaOption(FirstRow(t)[c]) => Returned
                /\ ~SpecJavaOption(FirstRow(t)[c]) => ~Returned
                /\ (IsStr(FirstRow(t)[c]) /\ ~SpecJavaOption(FirstRow(t)[c]))
                      => RaisedNaming("OpenVAConfigurationError", t, c)
                /\ FirstRow(t)[c] = Str("-Xmx1g") => Returned
                /\ FirstRow(t)[c] \in Strs({"-Xmx1k", "1g", "-Xmx0g", "-Xmxabg"})
                      => RaisedNaming("OpenVAConfigurationError", t, c)

(* java_option = "-Xmx1k" is refused. *)
C10_BadUnitRefused ==
    /\ Ran("__configInSilicoVA__")
    /\ OnlyDeparture("Advanced_InSilicoVA_Conf", 21)
    /\ FirstRow("Advanced_InSilicoVA_Conf")[21] = Str("-Xmx1k")
    /\ RaisedNaming("OpenVAConfigurationError", "Advanced_InSilicoVA_Conf", 21)

-----------------------------------------------------------------------------
(* The strictly positive fields of Advanced_InSilicoVA_Conf: thin, burnin, *)
(* jump_scale, levels_strength.                                            *)

PositiveFields == {11, 12, 15, 17}

(* The texts of the model that are numbers greater than 0, written out     *)
(* ("inf" is one to Python's float).                                       *)
SpecPositiveTexts == Strs({"0.5", "10", "inf", "2000", "0.1", "1"})

(* C11: the InSilicoVA validator accepts each of thin, burnin, jump_scale, *)
(* levels_strength if and only if it is a number strictly greater than 0;  *)
(* 0, a negative number and a text that is no number raise                 *)
(* OpenVAConfigurationError.                                               *)
C11_StrictlyPositive ==
    LET t == "Advanced_InSilicoVA_Conf"
    IN  \A c \in PositiveFields :
          Ran("__configInSilicoVA__") =>
            /\ Returned => FirstRow(t)[c] \in SpecPositiveTexts
            /\ (\E e \in PipelineErrorKinds \cup {"TypeError", "IndexError"} :
                   RaisedNaming(e, t, c))
                  => /\ Raised("OpenVAConfigurationError")
                     /\ FirstRow(t)[c] \notin SpecPositiveTexts
            /\ OnlyDeparture(t, c) =>
                  /\ IF FirstRow(t)[c] \in SpecPositiveTexts
                     THEN Returned
                     ELSE RaisedNaming("OpenVAConfigurationError", t, c)
                  /\ FirstRow(t)[c] \in Strs({"0", "0.0", "-1", "abc"})
                        => RaisedNaming("OpenVAConfigurationError", t, c)

(* thin = "0" is refused. *)
C11_ZeroThinRefused ==
    /\ Ran("__configInSilicoVA__")
    /\ OnlyDeparture("Advanced_InSilicoVA_Conf", 11)
    /\ FirstRow("Advanced_InSilicoVA_Conf")[11] = Str("0")
    /\ RaisedNaming("OpenVAConfigurationError", "Advanced_InSilicoVA_Conf", 11)

-----------------------------------------------------------------------------
(* The directory-valued algorithm fields: <<validator, table, column>>. *)

DirectoryFields ==
    {<<"__configInterVA__", "Advanced_InterVA_Conf", 1>>,
     <<"__configInSilicoVA__", "Advanced_InSilicoVA_Conf", 9>>}

(* The value that stands for the pipeline's own working directory. *)
SpecSentinel == Str("usePipelineVar")

(* The texts of the model that, joined to the working directory /wd, give  *)
(* an existing directory, written out.                                     *)
SpecJoinedExists(t) ==
    IF t = "Advanced_InterVA_Conf" THEN Strs({"InterVA", "/wd/InterVA", ""})
    ELSE Strs({"InSilicoVA", "/wd/InSilicoVA", ""})

(* C12: each directory-valued algorithm field is accepted if and only if   *)
(* it is the sentinel or the working directory joined with it is an        *)
(* existing directory; otherwise OpenVAConfigurationError is raised.  The  *)
(* sentinel is accepted in both validators.  (Stated for the values that   *)
(* are strings.)                                                           *)
C12_DirectoryOrSentinel ==
    \A f \in DirectoryFields :
        (Ran(f[1]) /\ OnlyDeparture(f[2], f[3]) /\ IsStr(FirstRow(f[2])[f[3]])) =>
            IF FirstRow(f[2])[f[3]] \in {SpecSentinel} \cup SpecJoinedExists(f[2])
            THEN Returned
            ELSE RaisedNaming("OpenVAConfigurationError", f[2], f[3])

(* C12, for the InSilicoVA validator and a directory that is a string. *)
C12_InSilicoVADirectory ==
    LET t == "Advanced_InSilicoVA_Conf"
    IN  (/\ Ran("__configInSilicoVA__")
         /\ OnlyDeparture(t, 9)
         /\ IsStr(FirstRow(t)[9]))
            => IF FirstRow(t)[9] \in {SpecSentinel} \cup SpecJoinedExists(t)
               THEN Returned
               ELSE RaisedNaming("OpenVAConfigurationError", t, 9)

-----------------------------------------------------------------------------
(* The declared domains of the fields of each settings record. *)

SpecHasHttpPrefix(x) ==
    /\ IsStr(x)
    /\ \/ Len(x.v) >= 7 /\ SubSeq(x.v, 1, 7) = "http://"
       \/ Len(x.v) >= 8 /\ SubSeq(x.v, 1, 8) = "https://"

SpecNonEmpty(x) == x \notin {Str(""), None}

(* The timestamps of the model that %Y-%m-%d_%H:%M:%S parses, written out. *)
SpecStampTexts ==
    Strs({"2023-05-10_23:59:00", "2023-05-10_00:00:00", "2023-5-1_1:2:3",
          "2023-03-01_12:00:00", "2024-03-01_12:00:00", "2024-02-29_08:30:00",
          "2000-03-01_00:00:00", "1900-03-01_00:00:00", "2100-03-01_00:00:00",
          "2024-01-01_00:00:00", "2023-12-31_23:59:59", "2023-07-01_00:00:00",
          "2023-08-01_00:00:00", "2023-05- 1_00:00:00", "9999-12-31_23:59:59",
          "1000-01-02_00:00:00", "1000-01-01_00:00:00", "0999-05-10_01:02:03",
          "0001-01-02_00:00:00", "0001-01-01_00:00:00"})

PipelineDomain(v, algorithms) ==
    /\ SpecMetadataCodeValid(v[1])
    /\ v[2] \in SpecCodSources
    /\ v[3] \in algorithms
    /\ SpecIsExistingDir(v[4])

ODKDomain(v) ==
    /\ SpecHasHttpPrefix(v[2])
    /\ v[6] \in SpecStampTexts
    /\ v[7] \in Strs({"success", "fail"})

DHISDomain(v) ==
    /\ SpecHasHttpPrefix(v[1])
    /\ \A k \in 2..4 : SpecNonEmpty(v[k])

(* InterVA_Conf (3 fields) followed by Advanced_InterVA_Conf. *)
InterVADomain(v) ==
    /\ v[1] \in Strs({"4", "5"})
    /\ v[2] \in Strs({"v", "l", "h"})
    /\ v[3] \in Strs({"v", "l", "h"})
    /\ v[4] \in {SpecSentinel} \cup SpecJoinedExists("Advanced_InterVA_Conf")
    /\ SpecNonEmpty(v[5])
    /\ v[6] \in Strs({"classic", "extended"})
    /\ \A k \in 7..12 : v[k] \in SpecBooleans("Advanced_InterVA_Conf")

(* InSilicoVA_Conf (2 fields) followed by Advanced_InSilicoVA_Conf. *)
InSilicoVADomain(v) ==
    LET a == [c \in 1..31 |-> v[c + 2]]
    IN  /\ v[1] \in Strs({"WHO2012", "WHO2016"})
        /\ SpecNonEmpty(v[2])
        /\ \A c \in {1, 2, 3, 6, 7, 8, 10, 13, 29, 31} :
              a[c] \in SpecBooleans("Advanced_InSilicoVA_Conf")
        /\ \A c \in {4, 16, 20, 23, 24, 25, 26, 27} : SpecNonEmpty(a[c])
        /\ \A c \in UnitFields : a[c] \in SpecUnitAllowed(c)
        /\ \A c \in PositiveFields : a[c] \in SpecPositiveTexts
        /\ a[9] \in {SpecSentinel} \cup SpecJoinedExists("Advanced_InSilicoVA_Conf")
        /\ SpecJavaOption(a[21])
        /\ a[22] \in Strs({"1", "-3.5"})
        /\ a[28] \in Strs({"subset", "all", "InterVA", "none"})
        /\ a[30] \in Strs({"NULL", "0.5", "0.0001", "0.9999"})

SmartVADomain(v) ==
    /\ \E i \in 1..Len(store["SmartVA_Country"].rows) :
          store["SmartVA_Country"].rows[i][1] = v[1]
    /\ \A k \in 2..6 : v[k] \in SpecBooleans("SmartVA_Conf")
    /\ v[7] \in Strs({"english", "chinese", "spanish"})

ReturnedInDomain(algorithms) ==
    Returned =>
        LET v == result.out.value
        IN  CASE Called("configPipeline") -> PipelineDomain(v, algorithms)
              [] Called("configODK") -> ODKDomain(v)
              [] Called("configDHIS") -> DHISDomain(v)
              [] Ran("__configInterVA__") -> InterVADomain(v)
              [] Ran("__configInSilicoVA__") -> InSilicoVADomain(v)
              [] Ran("__configSmartVA__") -> SmartVADomain(v)
              [] OTHER -> TRUE

(* C13: whenever configPipeline, configODK, configOpenVA or configDHIS     *)
(* returns, every field of the returned record lies in its declared domain *)
(* (the SmartVA flags in the spelling that validator declares, see C8).    *)
C13_ReturnedInDomain == ReturnedInDomain(SpecAlgorithms)

(* C13, with the algorithm names the code accepts. *)
C13_ReturnedInCodeDomain == ReturnedInDomain(PipelineAlgorithms)

-----------------------------------------------------------------------------
(* One field out of its domain *)

(* The call that reads table t, and the error kind of its domain. *)
Reads(t) ==
    CASE t = "Pipeline_Conf" -> Called("configPipeline")
      [] t = "ODK_Conf" -> Called("configODK")
      [] t = "DHIS_Conf" -> Called("configDHIS")
      [] t \in {"InterVA_Conf", "Advanced_InterVA_Conf"} -> Ran("__configInterVA__")
      [] t \in {"InSilicoVA_Conf", "Advanced_InSilicoVA_Conf"} ->
           Ran("__configInSilicoVA__")
      [] t = "SmartVA_Conf" -> Ran("__configSmartVA__")

ErrorOf(t) ==
    CASE t = "Pipeline_Conf" -> "PipelineConfigurationError"
      [] t = "ODK_Conf" -> "ODKConfigurationError"
      [] t = "DHIS_Conf" -> "DHISConfigurationError"
      [] OTHER -> "OpenVAConfigurationError"

(* The settings record the stored rows make up. *)
RecordOf(t) ==
    CASE t \in {"InterVA_Conf", "Advanced_InterVA_Conf"} ->
           FirstRow("InterVA_Conf") \o FirstRow("Advanced_InterVA_Conf")
      [] t \in {"InSilicoVA_Conf", "Advanced_InSilicoVA_Conf"} ->
           FirstRow("InSilicoVA_Conf") \o FirstRow("Advanced_InSilicoVA_Conf")
      [] OTHER -> FirstRow(t)

DomainOf(t, v, algorithms) ==
    CASE t = "Pipeline_Conf" -> PipelineDomain(v, algorithms)
      [] t = "ODK_Conf" -> ODKDomain(v)
      [] t = "DHIS_Conf" -> DHISDomain(v)
      [] t \in {"InterVA_Conf", "Advanced_InterVA_Conf"} -> InterVADomain(v)
      [] t \in {"InSilicoVA_Conf", "Advanced_InSilicoVA_Conf"} -> InSilicoVADomain(v)
      [] t = "SmartVA_Conf" -> SmartVADomain(v)

(* The call raised exc with a message naming column c of table t and no    *)
(* other field of any table.                                               *)
RaisedNamingNoOther(exc, t, c) ==
    /\ RaisedNaming(exc, t, c)
    /\ \A u \in ConfigTables : \A k \in 1..Len(Columns(u)) :
          LET q == MessageTable(u) \o "." \o Columns(u)[k]
          IN  q # MessageTable(t) \o "." \o Columns(t)[c]
                 => ~Mentions(result.out.msg, q)

(* C14: when exactly one field of a configuration row is out of its domain *)
(* and all others are valid, the loader of that domain raises the domain's *)
(* own error kind naming that field; it does not return and names no other *)
(* field.                                                                  *)
C14_OneFieldOutOfDomain ==
    \A t \in ConfigTables : \A c \in 1..Len(BaseRow(t)) :
        (/\ Reads(t)
         /\ OnlyDeparture(t, c)
         /\ ~DomainOf(t, RecordOf(t), SpecAlgorithms))
            => RaisedNamingNoOther(ErrorOf(t), t, c)

(* C14, with the algorithm names the code accepts, for a field that holds  *)
(* a string and is not odkLastRun.                                         *)
C14_OneStringOutOfCodeDomain ==
    \A t \in ConfigTables : \A c \in 1..Len(BaseRow(t)) :
        (/\ Reads(t)
         /\ OnlyDeparture(t, c)
         /\ IsStr(FirstRow(t)[c])
         /\ <<t, c>> # <<"ODK_Conf", 6>>
         /\ ~DomainOf(t, RecordOf(t), PipelineAlgorithms))
            => RaisedNamingNoOther(ErrorOf(t), t, c)

-----------------------------------------------------------------------------
(* Query failures *)

(* The call selects from table t, a configuration or a reference table. *)
Selects(t) ==
    CASE t = "Algorithm_Metadata_Options" -> Called("configPipeline")
      [] t = "SmartVA_Country" -> Ran("__configSmartVA__")
      [] OTHER -> Reads(t)

(* The message reports the query of table t. *)
ReportsTable(t) == Mentions(result.out.msg, "table " \o t)

BaseTableOf(t) ==
    IF t = "Advanced_InterVA_Conf" THEN "InterVA_Conf" ELSE "InSilicoVA_Conf"

SpecBaseValid(b) ==
    /\ HasRow(b)
    /\ IF b = "InterVA_Conf"
       THEN /\ FirstRow(b)[1] \in Strs({"4", "5"})
            /\ FirstRow(b)[2] \in Strs({"v", "l", "h"})
            /\ FirstRow(b)[3] \in Strs({"v", "l", "h"})
       ELSE /\ FirstRow(b)[1] \in Strs({"WHO2012", "WHO2016"})
            /\ SpecNonEmpty(FirstRow(b)[2])

(* The call gets to issue its query of t: always, but for the advanced     *)
(* tables, which are queried once the base table's row is found valid.     *)
Issues(t) ==
    t \in {"Advanced_InterVA_Conf", "Advanced_InSilicoVA_Conf"}
        => SpecBaseValid(BaseTableOf(t))

-----------------------------------------------------------------------------
(* connectDB *)

(* The outcome the specification gives connectDB: the store file missing,  *)
(* the key wrong, or neither.                                              *)
ConnectOutcome ==
    IF ~dbFilePresent
    THEN /\ Raised("DatabaseConnectionError")
         /\ result.out.msg = ""
         /\ opened = 0
         /\ ~held
    ELSE IF dbKey # StoreKey
    THEN /\ Raised("DatabaseConnectionError")
         /\ \E detail \in ProbeErrorTexts :
               result.out.msg = "Database password error," \o detail
         /\ opened > 0
         /\ ~held
    ELSE /\ Returned
         /\ result.out.value = <<Connection>>
         /\ held

(* C16: connectDB fails with DatabaseConnectionError in both failure       *)
(* cases, which the caller can tell apart: a store file that does not      *)
(* exist fails with the reason of a missing file (an empty message) and    *)
(* nothing is opened; an existing file with a wrong key fails at the probe *)
(* with the reason of a bad key and the detail of the underlying error;    *)
(* an existing file with the right key gives a connection.                 *)
C16_ConnectOutcomes == Called("connectDB") => ConnectOutcome

(* C16, for the keys that hold no double quote. *)
C16_ConnectOutcomesPlainKey ==
    (Called("connectDB") /\ PragmaKeyParses(dbKey)) => ConnectOutcome

-----------------------------------------------------------------------------
(* configDHIS *)

DHISFirstFailureNamed ==
    LET r == FirstRow("DHIS_Conf")
        E == "DHISConfigurationError"
    IN  IF ~SpecHasHttpPrefix(r[1]) THEN RaisedNamingNoOther(E, "DHIS_Conf", 1)
        ELSE IF ~SpecNonEmpty(r[2]) THEN RaisedNamingNoOther(E, "DHIS_Conf", 2)
        ELSE IF ~SpecNonEmpty(r[3]) THEN RaisedNamingNoOther(E, "DHIS_Conf", 3)
        ELSE IF ~SpecNonEmpty(r[4]) THEN RaisedNamingNoOther(E, "DHIS_Conf", 4)
        ELSE Returned /\ result.out.value = r

(* C17: configDHIS checks dhisURL (http:// or https:// prefix), dhisUser,  *)
(* dhisPassword, dhisOrgUnit (neither empty nor None) in that order and    *)
(* raises DHISConfigurationError naming the first that fails; it returns   *)
(* the four stored values unchanged only when all four pass.               *)
C17_DHISFirstFailureNamed ==
    (Called("configDHIS") /\ HasRow("DHIS_Conf")) => DHISFirstFailureNamed

(* C17, for a dhisURL that is a string. *)
C17_DHISFirstFailureNamedStringURL ==
    (/\ Called("configDHIS")
     /\ HasRow("DHIS_Conf")
     /\ IsStr(FirstRow("DHIS_Conf")[1]))
        => DHISFirstFailureNamed

-----------------------------------------------------------------------------
(* configODK *)

ODKChecksInOrder ==
    LET r == FirstRow("ODK_Conf")
        E == "ODKConfigurationError"
    IN  /\ Returned => (SpecHasHttpPrefix(r[2]) /\ r[7] \in Strs({"success", "fail"}))
        /\ ~SpecHasHttpPrefix(r[2]) => RaisedNamingNoOther(E, "ODK_Conf", 2)
        /\ (SpecHasHttpPrefix(r[2]) /\ r[7] \notin Strs({"success", "fail"}))
              => RaisedNamingNoOther(E, "ODK_Conf", 7)

(* C18: configODK accepts a row only if odkURL starts with http:// or      *)
(* https:// and odkLastRunResult is exactly "success" or "fail"; a         *)
(* violation of either raises ODKConfigurationError, the URL being checked *)
(* before odkLastRunResult and both before odkLastRun is parsed.           *)
C18_ODKChecksInOrder ==
    (Called("configODK") /\ HasRow("ODK_Conf")) => ODKChecksInOrder

(* C18, for an odkURL that is a string. *)
C18_ODKChecksInOrderStringURL ==
    (/\ Called("configODK")
     /\ HasRow("ODK_Conf")
     /\ IsStr(FirstRow("ODK_Conf")[2]))
        => ODKChecksInOrder

-----------------------------------------------------------------------------
(* The loaders only read *)

LoaderCalls == {"configPipeline", "configODK", "configOpenVA", "configDHIS"}

(* C19: no loader call changes the store: whether it returns or raises,    *)
(* every table, and in particular ODK_Conf.odkLastRun and                  *)
(* ODK_Conf.odkLastRunResult, holds after the call exactly what it held    *)
(* before; so it does after any sequence of loader calls.                  *)
C19_LoadersLeaveStore ==
    [][result'.op \in LoaderCalls => store' = store]_vars

(* configODK has refused a row. *)
C19_LoaderRaised ==
    /\ Called("configODK")
    /\ HasRow("ODK_Conf")
    /\ FirstRow("ODK_Conf")[7] = Str("Success")
    /\ RaisedNaming("ODKConfigurationError", "ODK_Conf", 7)

-----------------------------------------------------------------------------
(* storeVA *)

(* C20: recording a VA record whose submission identifier is already       *)
(* recorded fails with a store error and leaves the recorded one as it     *)
(* was.  (Stated for a store that already holds a record of every          *)
(* identifier: whichever record storeVA is to record is then a duplicate.) *)
C20_DuplicateRefused ==
    (Called("storeVA") /\ vaStorage = SubmissionIds) => result.out.kind = "raise"

-----------------------------------------------------------------------------
(* C21: a run that ends with no outcome recorded leaves odkLastRun as it   *)
(* was.                                                                    *)

Last(s) == s[Len(s)]

(* The run r ended with nothing recorded after storing part of the         *)
(* submissions, and the run after it has loaded the ODK configuration.     *)
CrashedThenResumed(r) ==
    /\ r < Len(runs)
    /\ runs[r].stored
    /\ runs[r].windows # <<>>
    /\ runs[r + 1].windows # <<>>

(* C21: when a run ends with no outcome recorded after a partial           *)
(* extraction, the next run's configODK has the outcome the ended run's    *)
(* configODK had: the same odkLastRun read from the store, the same        *)
(* odkLastRunDate and the same odkLastRunDatePrev, so the window the next  *)
(* run asks for starts where the ended run's window started.               *)
C21_CrashKeepsWindow ==
    \A r \in 1..MaxRuns :
        CrashedThenResumed(r) =>
            LET before == Last(runs[r].windows)
                after == runs[r + 1].windows[1]
            IN  /\ after.kind = before.kind
                /\ after = before
                /\ after.kind = "return" =>
                      /\ after.value[6] = store["ODK_Conf"].rows[1][6]
                      /\ after.value[8] = before.value[8]
                      /\ after.value[9] = before.value[9]

(* A run returned a window, stored records and ended; the next run has a   *)
(* window too.                                                             *)
C21_ResumedAfterCrash ==
    /\ CrashedThenResumed(1)
    /\ Last(runs[1].windows).kind = "return"
    /\ runs[2].windows[1].kind = "return"

-----------------------------------------------------------------------------
(* C22: computing the resume window twice gives the same window.           *)

(* C22: when configODK is called and then called again with no other call  *)
(* in between, the second call has the outcome of the first (the same      *)
(* record, so the same odkLastRunDate and odkLastRunDatePrev, or the same  *)
(* error), and the ODK_Conf rows the second call reads are the rows the    *)
(* first one read.                                                         *)
C22_SecondCallSameWindow ==
    [][(Called("configODK") /\ result'.op = "configODK") =>
          /\ result'.out = result.out
          /\ store'["ODK_Conf"] = store["ODK_Conf"]]_vars

(* configODK was called twice in a row in one run and returned a window    *)
(* both times.                                                             *)
C22_CalledTwice ==
    /\ Called("configODK")
    /\ Returned
    /\ Len(runs[Len(runs)].windows) = MaxCalls
    /\ ~runs[Len(runs)].stored

-----------------------------------------------------------------------------
(* C23: a failed connectDB leaves no handle open.                          *)

(* C23: when connectDB raises DatabaseConnectionError, the store file     *)
(* missing or the probe failing on a wrong key, no handle that it opened   *)
(* is left unclosed: the connection is released on every exit path that    *)
(* does not return it to the caller.                                       *)
C23_FailedConnectReleasesHandle ==
    (Called("connectDB") /\ Raised("DatabaseConnectionError")) =>
        /\ ~held
        /\ opened = 0

-----------------------------------------------------------------------------
(* C24: only the first row of a configuration table counts.                *)

(* The store with every configuration table cut down to its first row. *)
FirstRowsOnly(st) ==
    [t \in DOMAIN st |->
        IF t \in ConfigTables /\ st[t].ok /\ Len(st[t].rows) > 1
        THEN [ok |-> TRUE, rows |-> <<st[t].rows[1]>>]
        ELSE st[t]]

(* The outcome the loader last called has on the store st. *)
OutcomeOn(st) ==
    CASE Called("configPipeline") -> configPipeline(st)
      [] Called("configODK") -> configODK(st, padYear)
      [] Called("configDHIS") -> configDHIS(st)
      [] Called("configOpenVA") -> configOpenVA(st, result.args[1], result.args[2])

(* A configuration table the last call read holds further rows. *)
ReadsFurtherRows(t) ==
    /\ t \in ConfigTables
    /\ Reads(t)
    /\ store[t].ok
    /\ Len(store[t].rows) > 1

(* C24: when a configuration table a loader reads holds more than one row, *)
(* the loader's outcome, record or error, is the outcome it has on the     *)
(* store holding only the first row of that table: the further rows,       *)
(* valid or all NULL, change nothing, and a first row that is valid        *)
(* gives a record whatever follows it.                                     *)
C24_FurtherRowsIgnored ==
    \A t \in ConfigTables :
        ReadsFurtherRows(t) =>
            /\ result.out = OutcomeOn(FirstRowsOnly(store))
            /\ store[t].rows[1] = BaseRow(t) => Returned

(* A loader returned a record from a table whose second row is all NULL. *)
C24_NullRowIgnored ==
    \E t \in ConfigTables :
        /\ ReadsFurtherRows(t)
        /\ store[t].rows[2] = NullRow(t)
        /\ store[t].rows[1] # NullRow(t)
        /\ Returned

-----------------------------------------------------------------------------
(* C25: Advanced_InSilicoVA_Conf.indiv_CI, the 30th column selected. *)

(* The texts of the model that are numbers strictly between 0 and 1,       *)
(* written out, and "NULL".                                                *)
SpecIndivCITexts == Strs({"NULL", "0.5", "0.0001", "0.9999"})

(* The texts of the model that are the numbers 0 and 1. *)
SpecEndpointTexts == Strs({"0", "-0", "1", "1.0", " 1 "})

(* C25: the InSilicoVA validator accepts indiv_CI if and only if it is     *)
(* the string "NULL" or a number strictly between 0 and 1; every other     *)
(* value, the endpoints 0 and 1 (which the other probabilities accept)     *)
(* and a NULL column included, raises OpenVAConfigurationError naming      *)
(* indiv_CI.                                                               *)
C25_IndivCIOpenInterval ==
    LET t == "Advanced_InSilicoVA_Conf"
        x == FirstRow(t)[30]
    IN  Ran("__configInSilicoVA__") =>
          /\ Returned => x \in SpecIndivCITexts
          /\ (\E e \in PipelineErrorKinds \cup {"TypeError", "IndexError"} :
                 RaisedNaming(e, t, 30))
                => /\ Raised("OpenVAConfigurationError")
                   /\ x \notin SpecIndivCITexts
          /\ OnlyDeparture(t, 30) =>
                /\ IF x \in SpecIndivCITexts
                   THEN Returned
                   ELSE RaisedNaming("OpenVAConfigurationError", t, 30)
                /\ x \in SpecEndpointTexts =>
                      RaisedNaming("OpenVAConfigurationError", t, 30)

(* indiv_CI = "1" is refused. *)
C25_IndivCIOneRefused ==
    /\ Ran("__configInSilicoVA__")
    /\ OnlyDeparture("Advanced_InSilicoVA_Conf", 30)
    /\ FirstRow("Advanced_InSilicoVA_Conf")[30] = Str("1")
    /\ RaisedNaming("OpenVAConfigurationError", "Advanced_InSilicoVA_Conf", 30)

=============================================================================
